---- MODULE Spec2Model ----
(***************************************************************************)
(* Local persistence and access control of the notes application.         *)
(*                                                                         *)
(*   Protection Manager  src/src/utils/noteProtection.ts                   *)
(*   Record Store and Write Scheduler  src/unnamed/part_001                *)
(*                                                                         *)
(* Strings that the code hashes or compares (passwords, salts, hashes)     *)
(* are sequences of character codes, so that the rolling hashes and the    *)
(* base-36 formatting are computed as the code computes them.              *)
(***************************************************************************)
EXTENDS Integers, Sequences, FiniteSets, TLC

(***************************************************************************)
(* Bounds of the model.                                                    *)
(***************************************************************************)
NumNotes == 1
NumPasswords == 3
NumSalts == 2
MaxSetters == 1
MaxOps == 3
NumRecords == 2
NumRevs == 2
MaxProcs == 2
MaxCalls == 2
MaxDelay == 2
MaxTime == 3

(***************************************************************************)
(* Values.                                                                 *)
(***************************************************************************)
\* what localStorage.getItem returns for a key that is not stored
NULL == <<-1>>

\* JavaScript truthiness of a string (or null)
Truthy(s) == s # NULL /\ s # <<>>

NotePool == <<"n1", "n2", "n3", "n4">>
NoteIds == {NotePool[i] : i \in 1..NumNotes}

\* the notes that localStorage may hold keys for: those that the
\* operations are invoked on, and one that is only looked at
StoredNotes == {NotePool[i] : i \in 1..(NumNotes + 1)}

\* the global hidden-notes scope
HIDDEN == "hidden"
Scopes == {HIDDEN} \cup StoredNotes

\* "", "Aa", "BB", "a", "b", "Ab": "Aa" and "BB" have the same rolling hash
PasswordPool == << <<>>, <<65, 97>>, <<66, 66>>, <<97>>, <<98>>, <<65, 98>> >>
Passwords == {PasswordPool[i] : i \in 1..NumPasswords}

\* the optional password argument of authenticate / setNoteProtection
Undefined == [given |-> FALSE, s |-> <<>>]
PwArgs == {Undefined} \cup {[given |-> TRUE, s |-> p] : p \in Passwords}
ArgTruthy(a) == a.given /\ a.s # <<>>

\* The notes of the Record Store: a note has an id and a content, and the
\* ids of a collection are distinct, so a collection (the array  notes , the
\* content of the object store, whose key path is 'id') is the function
\* from the ids to the content stored under the id (0: no such note).
RecIds == 1..NumRecords
Snapshots == [RecIds -> 0..NumRevs]
EmptySnap == [r \in RecIds |-> 0]
NotesOf(snap) == {r \in RecIds : snap[r] # 0}

\* hex strings produced by generateSalt ("1", "2", ...: one hex digit each)
Salts == {<<48 + i>> : i \in 1..NumSalts}

(***************************************************************************)
(* Key Derivation Unit.                                                    *)
(***************************************************************************)
\* A signed 32-bit integer, as the bit operations << and & leave it, kept
\* as its two 16-bit halves (the two's complement bit pattern).
Zero32 == [hi |-> 0, lo |-> 0]

\* hash = ((hash << 5) - hash) + char; hash = hash & hash
\* that is 31 * hash + char, truncated to 32 bits
HashStep(hash, char) ==
  LET l == 31 * hash.lo + char
      h == 31 * hash.hi + (l \div 65536)
  IN  [hi |-> h % 65536, lo |-> l % 65536]

\* the loop  for (let i = 0; i < input.length; i++)
RECURSIVE RollingHash(_, _)
RollingHash(s, hash) ==
  IF s = <<>> THEN hash ELSE RollingHash(Tail(s), HashStep(hash, Head(s)))

IsNegative(w) == w.hi >= 32768

\* Math.abs
Abs32(w) ==
  IF ~IsNegative(w) THEN w
  ELSE IF w.lo = 0 THEN [hi |-> 65536 - w.hi, lo |-> 0]
  ELSE [hi |-> 65535 - w.hi, lo |-> 65536 - w.lo]

\* one digit of Number.prototype.toString(36)
Digit36(d) == IF d < 10 THEN 48 + d ELSE 87 + d

\* the digits in base 36 of a non-negative value
RECURSIVE Digits36(_)
Digits36(w) ==
  IF w.hi = 0 /\ w.lo < 36 THEN <<Digit36(w.lo)>>
  ELSE LET t == (w.hi % 36) * 65536 + w.lo
       IN  Append(Digits36([hi |-> w.hi \div 36, lo |-> t \div 36]), Digit36(t % 36))

\* hash.toString(36)
ToString36(w) ==
  IF IsNegative(w) THEN <<45>> \o Digits36(Abs32(w)) ELSE Digits36(w)

\* 'fallback_'
FallbackPrefix == <<102, 97, 108, 108, 98, 97, 99, 107, 95>>

fallbackHash(input) == FallbackPrefix \o Digits36(Abs32(RollingHash(input, Zero32)))

\* the legacy unsalted hash: hash.toString(36) + password.length.toString(36)
hashPassword(password) ==
  ToString36(RollingHash(password, Zero32))
    \o Digits36([hi |-> 0, lo |-> Len(password)])

\* The PBKDF2-SHA256 digest of (password, salt).  The digest itself is not
\* computed: it is a value determined by the pair and different for
\* different pairs (0 is not a character code, so it is no other hash).
Pbkdf2(password, salt) == <<0>> \o password \o <<0>> \o salt

\* hashPasswordAsync: PBKDF2, or the fallback hash when Web Crypto throws
hashPasswordAsync(crypto, password, salt) ==
  IF crypto THEN Pbkdf2(password, salt) ELSE fallbackHash(password \o salt)

\* verifyPassword takes the salted branch iff  if (salt)  holds
SaltedPath(salt) == Truthy(salt)

\* a legacy branch that compares with the fallback hash instead
VerifyLegacy_Fallback(password, hashedPassword) ==
  fallbackHash(password) = hashedPassword

\* the legacy branch of verifyPassword
VerifyLegacy(password, hashedPassword) == hashPassword(password) = hashedPassword

\* the comparison that ends the salted branch of verifyPassword
VerifySalted(crypto, password, hashedPassword, salt) ==
  hashPasswordAsync(crypto, password, salt) = hashedPassword

(***************************************************************************)
(* State.                                                                  *)
(***************************************************************************)
VARIABLES
  localStorage,   \* the key-value store (credentials, flags, legacy notes)
  cryptoOK,       \* crypto.subtle is usable on this platform
  native,         \* Capacitor.isNativePlatform()
  auth,           \* the authenticate call in flight
  setter,         \* the setHiddenNotesPassword / setNoteProtection calls in flight
  lastSet,        \* history: per scope, the last completed credential operation
  ops,            \* number of operations invoked so far
  idb,            \* the committed content of the object store 'notes'
  db,             \* the module-level database handle is set
  proc,           \* the Record Store calls in flight
  txQueue,        \* the read-write transactions on the store, oldest first
  txStore,        \* the content of the store as the running transaction sees it
  mig,            \* the migrateNotesToIndexedDB call
  saveTimeout,    \* the timer handle of debouncedSaveNotes (0: null)
  timers,         \* the timers set by setTimeout that have not fired
  now,            \* the clock, in timer ticks
  calls,          \* history: the debouncedSaveNotes calls, and the last one
  fired,          \* history: the saveNotesToDB calls made by the timer
  util            \* the argument and the result of a conversion or utility

\* what the Record Store leaves alone, and what the Protection Manager
\* leaves alone; util belongs to neither
protVars == <<cryptoOK, native, auth, setter, lastSet, util>>
storeVars == <<idb, db, proc, txQueue, txStore, mig, saveTimeout, timers, now, calls,
              fired, util>>
vars == <<localStorage, ops, protVars, storeVars>>

(***************************************************************************)
(* Credential Store: the keys of localStorage.                             *)
(***************************************************************************)
\* the value stored under npd_note_protection_<id>
AbsentEntry  == [kind |-> "absent",  hasPassword |-> FALSE, useBiometric |-> FALSE]
\* a text that JSON.parse rejects
GarbageEntry == [kind |-> "garbage", hasPassword |-> FALSE, useBiometric |-> FALSE]
\* the text  null , which JSON.parse accepts
NullEntry    == [kind |-> "null",    hasPassword |-> FALSE, useBiometric |-> FALSE]
\* JSON.stringify(protection)
JsonEntry(protection) ==
  [kind |-> "json", hasPassword |-> protection.hasPassword,
   useBiometric |-> protection.useBiometric]

NoteProtections == [hasPassword : BOOLEAN, useBiometric : BOOLEAN]

EmptyStorage ==
  [npd_hidden_notes_password      |-> NULL,
   npd_hidden_notes_salt          |-> NULL,
   npd_hidden_notes_use_biometric |-> "null",
   npd_security_question          |-> NULL,
   npd_security_answer            |-> NULL,
   npd_security_answer_salt       |-> NULL,
   npd_note_protection            |-> [n \in StoredNotes |-> AbsentEntry],
   npd_note_password              |-> [n \in StoredNotes |-> NULL],
   npd_note_salt                  |-> [n \in StoredNotes |-> NULL],
   notes                          |-> [kind |-> "absent", list |-> EmptySnap],
   notes_migrated_to_indexeddb    |-> "null"]

getHiddenNotesSettings(ls) ==
  [isNull       |-> FALSE,
   hasPassword  |-> Truthy(ls.npd_hidden_notes_password),
   useBiometric |-> ls.npd_hidden_notes_use_biometric = "true"]

\* JSON.parse of the stored text; the default when absent or unparseable
getNoteProtection(ls, noteId) ==
  LET data == ls.npd_note_protection[noteId]
  IN  CASE data.kind = "json" ->
             [isNull |-> FALSE, hasPassword |-> data.hasPassword,
              useBiometric |-> data.useBiometric]
        [] data.kind = "null" ->
             [isNull |-> TRUE, hasPassword |-> FALSE, useBiometric |-> FALSE]
        [] OTHER ->
             [isNull |-> FALSE, hasPassword |-> FALSE, useBiometric |-> FALSE]

StoredHash(ls, scope) ==
  IF scope = HIDDEN THEN ls.npd_hidden_notes_password
  ELSE ls.npd_note_password[scope]

StoredSalt(ls, scope) ==
  IF scope = HIDDEN THEN ls.npd_hidden_notes_salt
  ELSE ls.npd_note_salt[scope]

\* a store of the hash that leaves the salt as it was
WriteCredential_NoSalt(ls, scope, hash, salt) ==
  IF scope = HIDDEN
  THEN [ls EXCEPT !.npd_hidden_notes_password = hash]
  ELSE [ls EXCEPT !.npd_note_password[scope] = hash]

\* localStorage.setItem of the hash and of the salt of a scope
WriteCredential(ls, scope, hash, salt) ==
  IF scope = HIDDEN
  THEN [ls EXCEPT !.npd_hidden_notes_password = hash,
                  !.npd_hidden_notes_salt = salt]
  ELSE [ls EXCEPT !.npd_note_password[scope] = hash,
                  !.npd_note_salt[scope] = salt]

(***************************************************************************)
(* History variables of the Protection Manager.                            *)
(***************************************************************************)
NoHistory == [kind |-> "none",  pw |-> <<>>]
Cleared   == [kind |-> "clear", pw |-> <<>>]
Other     == [kind |-> "other", pw |-> <<>>]
WasSet(pw) == [kind |-> "set", pw |-> pw]
\* setHiddenNotesBiometric(enabled) was the last operation
Switched(enabled) == [kind |-> "bio", pw |-> IF enabled THEN <<1>> ELSE <<0>>]

IdleAuth ==
  [pc |-> "idle", scope |-> HIDDEN, pw |-> Undefined,
   hasPassword |-> FALSE, useBiometric |-> FALSE,
   gate |-> "none", storedHash |-> NULL, storedSalt |-> NULL,
   path |-> "none", res |-> FALSE,
   base |-> NoHistory, hash0 |-> NULL, salt0 |-> NULL, clean |-> TRUE]

IdleSetter ==
  [pc |-> "idle", scope |-> HIDDEN, pw |-> <<>>, salt |-> <<>>,
   hp |-> FALSE, clean |-> TRUE]

SetterIds == 1..MaxSetters

\* an authenticate call in flight on the scope has seen the scope change
Dirty(a, scope) ==
  IF a.pc \in {"bio", "derive"} /\ a.scope = scope
  THEN [a EXCEPT !.clean = FALSE] ELSE a

\* the other password-setting calls in flight on the scope overlap a write
DirtySetters(st, scope, self) ==
  [i \in DOMAIN st |->
     IF i # self /\ st[i].pc = "derive" /\ st[i].scope = scope
     THEN [st[i] EXCEPT !.clean = FALSE] ELSE st[i]]

(***************************************************************************)
(* Protection Manager: authenticate.                                       *)
(***************************************************************************)
Settings(ls, scope) ==
  IF scope = HIDDEN THEN getHiddenNotesSettings(ls)
  ELSE getNoteProtection(ls, scope)

\* authenticateWithBiometric: false off the native platform, false when
\* NativeBiometric.verifyIdentity rejects (failure, cancellation)
authenticateWithBiometric(isNative, verified) == isNative /\ verified

Finish(a, result) == [a EXCEPT !.pc = "done", !.res = result]

\* a fallback that lets the caller in when it has nothing to verify
PasswordFallback_Open(a, ls) ==
  IF ArgTruthy(a.pw) /\ a.hasPassword
  THEN LET storedHash == StoredHash(ls, a.scope)
           storedSalt == StoredSalt(ls, a.scope)
       IN  IF ~Truthy(storedHash) THEN Finish(a, FALSE)
           ELSE IF SaltedPath(storedSalt)
           THEN [a EXCEPT !.pc = "derive", !.path = "salted",
                          !.storedHash = storedHash, !.storedSalt = storedSalt]
           ELSE [a EXCEPT !.pc = "done", !.path = "legacy",
                          !.storedHash = storedHash, !.storedSalt = storedSalt,
                          !.res = VerifyLegacy(a.pw.s, storedHash)]
  ELSE Finish(a, TRUE)

\* "Fall back to password": the test of the argument and of hasPassword,
\* then verifyHiddenNotesPassword / verifyNotePassword up to the point
\* where verifyPassword either returns or awaits the derivation
PasswordFallback(a, ls) ==
  IF ArgTruthy(a.pw) /\ a.hasPassword
  THEN LET storedHash == StoredHash(ls, a.scope)
           storedSalt == StoredSalt(ls, a.scope)
       IN  IF ~Truthy(storedHash) THEN Finish(a, FALSE)
           ELSE IF SaltedPath(storedSalt)
           THEN [a EXCEPT !.pc = "derive", !.path = "salted",
                          !.storedHash = storedHash, !.storedSalt = storedSalt]
           ELSE [a EXCEPT !.pc = "done", !.path = "legacy",
                          !.storedHash = storedHash, !.storedSalt = storedSalt,
                          !.res = VerifyLegacy(a.pw.s, storedHash)]
  ELSE Finish(a, FALSE)

\* the body of authenticateForHiddenNotes / authenticateForNote up to its
\* first await, given the settings it has read
AuthBegin(a, settings, ls) ==
  IF settings.isNull THEN [a EXCEPT !.pc = "threw"]
  ELSE IF ~settings.hasPassword /\ ~settings.useBiometric THEN Finish(a, TRUE)
  ELSE IF settings.useBiometric THEN [a EXCEPT !.pc = "bio"]
  ELSE PasswordFallback(a, ls)

NewAuth(scope, pw, settings) ==
  [IdleAuth EXCEPT !.scope = scope, !.pw = pw,
                   !.hasPassword = settings.hasPassword,
                   !.useBiometric = settings.useBiometric,
                   !.base = lastSet[scope],
                   !.hash0 = StoredHash(localStorage, scope),
                   !.salt0 = StoredSalt(localStorage, scope)]

authenticateForHiddenNotes(password) ==
  /\ auth.pc \in {"idle", "done", "threw"}
  /\ ops < MaxOps
  /\ LET settings == getHiddenNotesSettings(localStorage)
     IN  auth' = AuthBegin(NewAuth(HIDDEN, password, settings), settings, localStorage)
  /\ ops' = ops + 1
  /\ UNCHANGED <<localStorage, cryptoOK, native, setter, lastSet, storeVars>>

authenticateForNote(noteId, password) ==
  /\ auth.pc \in {"idle", "done", "threw"}
  /\ ops < MaxOps
  /\ LET protection == getNoteProtection(localStorage, noteId)
     IN  auth' = AuthBegin(NewAuth(noteId, password, protection), protection, localStorage)
  /\ ops' = ops + 1
  /\ UNCHANGED <<localStorage, cryptoOK, native, setter, lastSet, storeVars>>

\* a gate whose success does not end the call: the password is still asked
BiometricReturns_NoPrecedence(verified) ==
  /\ auth.pc = "bio"
  /\ auth' = IF authenticateWithBiometric(native, verified)
             THEN PasswordFallback([auth EXCEPT !.gate = "ok"], localStorage)
             ELSE PasswordFallback([auth EXCEPT !.gate = "fail"], localStorage)
  /\ UNCHANGED <<localStorage, ops, cryptoOK, native, setter, lastSet, storeVars>>

\* the Biometric Gate answers; on success access is granted, otherwise the
\* call goes on with the password
BiometricReturns(verified) ==
  /\ auth.pc = "bio"
  /\ auth' = IF authenticateWithBiometric(native, verified)
             THEN Finish([auth EXCEPT !.gate = "ok"], TRUE)
             ELSE PasswordFallback([auth EXCEPT !.gate = "fail"], localStorage)
  /\ UNCHANGED <<localStorage, ops, cryptoOK, native, setter, lastSet, storeVars>>

\* the derivation awaited by verifyPassword returns: hash === hashedPassword
VerifyReturns ==
  /\ auth.pc = "derive"
  /\ auth' = Finish(auth, VerifySalted(cryptoOK, auth.pw.s, auth.storedHash,
                                       auth.storedSalt))
  /\ UNCHANGED <<localStorage, ops, cryptoOK, native, setter, lastSet, storeVars>>

(***************************************************************************)
(* Protection Manager: setting and clearing credentials.                   *)
(***************************************************************************)
\* setHiddenNotesPassword up to the await: generateSalt, then the derivation
setHiddenNotesPassword(i, password, salt) ==
  /\ setter[i].pc = "idle"
  /\ ops < MaxOps
  /\ setter' = [setter EXCEPT ![i] =
                  [pc |-> "derive", scope |-> HIDDEN, pw |-> password,
                   salt |-> salt, hp |-> TRUE, clean |-> TRUE]]
  /\ ops' = ops + 1
  /\ UNCHANGED <<localStorage, cryptoOK, native, auth, lastSet, storeVars>>

\* setNoteProtection up to the await (with a password) or to its end
setNoteProtection(i, noteId, protection, password, salt) ==
  /\ ops < MaxOps
  /\ ArgTruthy(password) => setter[i].pc = "idle"
  /\ LET ls1 == [localStorage EXCEPT
                   !.npd_note_protection[noteId] = JsonEntry(protection)]
     IN  IF ArgTruthy(password)
         THEN /\ localStorage' = ls1
              /\ setter' = [DirtySetters(setter, noteId, i) EXCEPT ![i] =
                              [pc |-> "derive", scope |-> noteId,
                               pw |-> password.s, salt |-> salt,
                               hp |-> protection.hasPassword, clean |-> TRUE]]
         ELSE /\ localStorage' =
                   IF ~protection.hasPassword
                   THEN [ls1 EXCEPT !.npd_note_password[noteId] = NULL,
                                    !.npd_note_salt[noteId] = NULL]
                   ELSE ls1
              /\ setter' = DirtySetters(setter, noteId, 0)
  /\ auth' = Dirty(auth, noteId)
  /\ lastSet' = [lastSet EXCEPT ![noteId] = Other]
  /\ ops' = ops + 1
  /\ UNCHANGED <<cryptoOK, native, storeVars>>

\* a setter that stores the unsalted hash of the password
DerivationReturns_Legacy(i) ==
  /\ setter[i].pc = "derive"
  /\ LET s == setter[i]
         hash == hashPassword(s.pw)
     IN  /\ localStorage' = WriteCredential(localStorage, s.scope, hash, s.salt)
         /\ setter' = [DirtySetters(setter, s.scope, i) EXCEPT ![i] = IdleSetter]
         /\ auth' = Dirty(auth, s.scope)
         /\ lastSet' = [lastSet EXCEPT ![s.scope] =
                          IF s.clean /\ s.hp THEN WasSet(s.pw) ELSE Other]
  /\ UNCHANGED <<ops, cryptoOK, native, storeVars>>

\* the derivation awaited by setHiddenNotesPassword / setNoteProtection
\* returns: the hash and the salt are stored
DerivationReturns(i) ==
  /\ setter[i].pc = "derive"
  /\ LET s == setter[i]
         hash == hashPasswordAsync(cryptoOK, s.pw, s.salt)
     IN  /\ localStorage' = WriteCredential(localStorage, s.scope, hash, s.salt)
         /\ setter' = [DirtySetters(setter, s.scope, i) EXCEPT ![i] = IdleSetter]
         /\ auth' = Dirty(auth, s.scope)
         /\ lastSet' = [lastSet EXCEPT ![s.scope] =
                          IF s.clean /\ s.hp THEN WasSet(s.pw) ELSE Other]
  /\ UNCHANGED <<ops, cryptoOK, native, storeVars>>

\* a switch that takes the password away with the flag
setHiddenNotesBiometric_Reset(enabled) ==
  /\ ops < MaxOps
  /\ localStorage' = [localStorage EXCEPT
                        !.npd_hidden_notes_use_biometric =
                           IF enabled THEN "true" ELSE "false",
                        !.npd_hidden_notes_password = NULL,
                        !.npd_hidden_notes_salt = NULL]
  /\ auth' = Dirty(auth, HIDDEN)
  /\ lastSet' = [lastSet EXCEPT ![HIDDEN] = Switched(enabled)]
  /\ ops' = ops + 1
  /\ UNCHANGED <<cryptoOK, native, setter, storeVars>>

setHiddenNotesBiometric(enabled) ==
  /\ ops < MaxOps
  /\ localStorage' = [localStorage EXCEPT !.npd_hidden_notes_use_biometric =
                        IF enabled THEN "true" ELSE "false"]
  /\ auth' = Dirty(auth, HIDDEN)
  /\ lastSet' = [lastSet EXCEPT ![HIDDEN] = Switched(enabled)]
  /\ ops' = ops + 1
  /\ UNCHANGED <<cryptoOK, native, setter, storeVars>>

clearHiddenNotesProtection ==
  /\ ops < MaxOps
  /\ localStorage' = [localStorage EXCEPT
                        !.npd_hidden_notes_password = NULL,
                        !.npd_hidden_notes_salt = NULL,
                        !.npd_hidden_notes_use_biometric = "null"]
  /\ auth' = Dirty(auth, HIDDEN)
  /\ setter' = DirtySetters(setter, HIDDEN, 0)
  /\ lastSet' = [lastSet EXCEPT ![HIDDEN] = Cleared]
  /\ ops' = ops + 1
  /\ UNCHANGED <<cryptoOK, native, storeVars>>

\* a removal whose keys do not depend on the note id
removeNoteProtection_All(noteId) ==
  /\ ops < MaxOps
  /\ localStorage' = [localStorage EXCEPT
                        !.npd_note_protection = [n \in StoredNotes |-> AbsentEntry],
                        !.npd_note_password = [n \in StoredNotes |-> NULL],
                        !.npd_note_salt = [n \in StoredNotes |-> NULL]]
  /\ auth' = Dirty(auth, noteId)
  /\ setter' = DirtySetters(setter, noteId, 0)
  /\ lastSet' = [lastSet EXCEPT ![noteId] = Cleared]
  /\ ops' = ops + 1
  /\ UNCHANGED <<cryptoOK, native, storeVars>>

removeNoteProtection(noteId) ==
  /\ ops < MaxOps
  /\ localStorage' = [localStorage EXCEPT
                        !.npd_note_protection[noteId] = AbsentEntry,
                        !.npd_note_password[noteId] = NULL,
                        !.npd_note_salt[noteId] = NULL]
  /\ auth' = Dirty(auth, noteId)
  /\ setter' = DirtySetters(setter, noteId, 0)
  /\ lastSet' = [lastSet EXCEPT ![noteId] = Cleared]
  /\ ops' = ops + 1
  /\ UNCHANGED <<cryptoOK, native, storeVars>>

(***************************************************************************)
(* Record Store: values.                                                   *)
(***************************************************************************)
ProcIds == 1..MaxProcs

\* A call of saveNotesToDB.  pc: "opening" (awaiting indexedDB.open),
\* "queued" (transaction created, clear requested), "cleared" (the clear
\* has run, its success event is due), "written" (the puts are requested),
\* and how the call ended: "resolved" (out says whether the transaction
\* completed or the failure to open was logged), "rejected"
\* (transaction.onerror), "hung" (the transaction aborted without an error
\* event: the promise is never settled).
IdleProc == [kind |-> "none", pc |-> "idle", notes |-> EmptySnap,
             by |-> "none", out |-> "none"]

Settled == {"idle", "resolved", "rejected", "hung"}

\* the value stored under 'notes': absent, a text that is not JSON, or
\* JSON.stringify of the list of notes
NoLegacy == [kind |-> "absent", list |-> EmptySnap]
LegacyEntries ==
  {NoLegacy, [kind |-> "garbage", list |-> EmptySnap]}
    \cup {[kind |-> "json", list |-> l] : l \in Snapshots}

\* the list of notes read from 'notes'; [] when absent or unparseable
loadNotesFromLocalStorage(ls) ==
  IF ls.notes.kind = "json" THEN ls.notes.list ELSE EmptySnap

IdleMig == [pc |-> "idle", child |-> 0, res |-> FALSE, had |-> EmptySnap,
            second |-> FALSE, notes0 |-> NoLegacy, flag0 |-> "null",
            idb0 |-> EmptySnap]

\* no debouncedSaveNotes call yet / no timer has fired yet
NoCalls == [n |-> 0, t |-> 0, delay |-> 0, notes |-> EmptySnap]
NoFired == [n |-> 0, forLast |-> 0, stale |-> 0, t |-> 0, notes |-> EmptySnap]

\* no conversion under way
NoUtil == [pc |-> "none"]

StoreIdle ==
  /\ util = NoUtil
  /\ db = FALSE
  /\ proc = [p \in ProcIds |-> IdleProc]
  /\ txQueue = <<>>
  /\ txStore = EmptySnap
  /\ mig = IdleMig
  /\ saveTimeout = 0
  /\ timers = {}
  /\ now = 0
  /\ calls = NoCalls
  /\ fired = NoFired

(***************************************************************************)
(* The Protection Manager on a device that may hold credentials written    *)
(* before the salted scheme, or a damaged per-note protection entry.       *)
(***************************************************************************)
LegacyHidden(p, bio) ==
  [EmptyStorage EXCEPT !.npd_hidden_notes_password = hashPassword(p),
                       !.npd_hidden_notes_use_biometric = bio]

LegacyNote(n, p, ub) ==
  [EmptyStorage EXCEPT
     !.npd_note_protection[n] = JsonEntry([hasPassword |-> TRUE, useBiometric |-> ub]),
     !.npd_note_password[n] = hashPassword(p)]

DamagedNote(n, entry) == [EmptyStorage EXCEPT !.npd_note_protection[n] = entry]

InitialStorages ==
  {EmptyStorage}
    \cup {LegacyHidden(p, bio) : p \in Passwords, bio \in {"null", "true"}}
    \cup {LegacyNote(n, p, ub) : n \in NoteIds, p \in Passwords, ub \in BOOLEAN}
    \cup {DamagedNote(n, e) : n \in NoteIds, e \in {GarbageEntry, NullEntry}}

Init ==
  /\ localStorage \in InitialStorages
  /\ cryptoOK \in BOOLEAN
  /\ native \in BOOLEAN
  /\ auth = IdleAuth
  /\ setter = [i \in SetterIds |-> IdleSetter]
  /\ lastSet = [s \in Scopes |-> NoHistory]
  \* what the device already holds was written by an earlier operation
  /\ ops = IF localStorage = EmptyStorage THEN 0 ELSE 1
  /\ idb = EmptySnap
  /\ StoreIdle

Next ==
  \/ \E password \in PwArgs : authenticateForHiddenNotes(password)
  \/ \E noteId \in NoteIds, password \in PwArgs : authenticateForNote(noteId, password)
  \/ \E verified \in BOOLEAN : BiometricReturns(verified)
  \/ VerifyReturns
  \/ \E i \in SetterIds, password \in Passwords, salt \in Salts :
        setHiddenNotesPassword(i, password, salt)
  \/ \E i \in SetterIds, noteId \in NoteIds, protection \in NoteProtections,
        password \in PwArgs, salt \in Salts :
        setNoteProtection(i, noteId, protection, password, salt)
  \/ \E i \in SetterIds : DerivationReturns(i)
  \/ \E enabled \in BOOLEAN : setHiddenNotesBiometric(enabled)
  \/ clearHiddenNotesProtection
  \/ \E noteId \in NoteIds : removeNoteProtection(noteId)

Spec == Init /\ [][Next]_vars

(***************************************************************************)
(* Properties of the Protection Manager.                                   *)
(*                                                                         *)
(* auth.base is the last operation completed on the scope when the         *)
(* authenticate call started ("set": setHiddenNotesPassword, or            *)
(* setNoteProtection with hasPassword = true and a password, that no other *)
(* operation on the scope overlapped; "clear"), auth.hash0/salt0 is        *)
(* what was stored then, and auth.clean says that the scope has not been   *)
(* written while the call was in flight.                                   *)
(***************************************************************************)
Returned == auth.pc = "done"

\* verify(password, storedHash, storedSalt?)
Verifies(password, storedHash, storedSalt) ==
  IF Truthy(storedSalt)
  THEN hashPasswordAsync(cryptoOK, password, storedSalt) = storedHash
  ELSE hashPassword(password) = storedHash

\* C1 (as claimed): after setPassword(scope, x) has completed,
\* authenticate(scope, x) returns true and authenticate(scope, y) returns
\* false for every y # x; after clearProtection(scope) authenticate(scope, p)
\* returns true for every p, including no password.
C1_AsClaimed ==
  (Returned /\ auth.clean) =>
     /\ (auth.base.kind = "set" /\ auth.pw.given)
           => (auth.res <=> auth.pw.s = auth.base.pw)
     /\ auth.base.kind = "clear" => auth.res

\* C1 (amended): after setPassword(scope, x) with a non-empty x has
\* completed (for a note: setNoteProtection with hasPassword = true),
\* authenticate(scope, x) returns true; authenticate(scope, y), y # x,
\* returns false when the Biometric Gate does not grant access and the
\* derivation is PBKDF2; after clearProtection(scope) authenticate returns
\* true for every argument.
C1_CredentialLifecycle ==
  (Returned /\ auth.clean) =>
     /\ ( /\ auth.base.kind = "set" /\ auth.base.pw # <<>>
          /\ auth.pw.given /\ auth.pw.s = auth.base.pw ) => auth.res
     /\ ( /\ auth.base.kind = "set" /\ auth.base.pw # <<>>
          /\ auth.pw.given /\ auth.pw.s # auth.base.pw
          /\ auth.gate # "ok" /\ cryptoOK ) => ~auth.res
     /\ auth.base.kind = "clear" => auth.res

\* a call with the password that was set is let in after the derivation
C1_Witness ==
  /\ Returned /\ auth.clean /\ auth.base.kind = "set"
  /\ auth.pw.given /\ auth.pw.s = auth.base.pw /\ auth.pw.s # <<>>
  /\ auth.path = "salted" /\ auth.res

\* C2: on a protected scope (hasPassword or useBiometric) authenticate
\* returns true exactly when useBiometric is set and the Biometric Gate
\* returned true, or a password was supplied, hasPassword is set and the
\* password verifies against the stored hash and salt; otherwise false.
C2_NoAccessWithoutFactor ==
  LET byGate == auth.useBiometric /\ auth.gate = "ok"
      byPassword ==
        /\ ArgTruthy(auth.pw) /\ auth.hasPassword /\ auth.path # "none"
        /\ Truthy(auth.storedHash)
        /\ Verifies(auth.pw.s, auth.storedHash, auth.storedSalt)
  IN  /\ (Returned /\ (auth.hasPassword \/ auth.useBiometric))
            => (auth.res <=> (byGate \/ byPassword))
      /\ (Returned /\ auth.clean /\ auth.path # "none")
            => (auth.storedHash = auth.hash0 /\ auth.storedSalt = auth.salt0)

\* the gate has refused and no password was given: access is denied
C2_Witness ==
  /\ Returned /\ auth.useBiometric /\ auth.hasPassword
  /\ auth.gate = "fail" /\ ~auth.pw.given /\ ~auth.res

\* C7: with useBiometric and hasPassword both set and the Biometric Gate
\* returning true, authenticate returns true whatever the password argument
\* and verifies no password; a password is verified only after the gate,
\* when enabled, has refused.
C7_BiometricPrecedence ==
  /\ (Returned /\ auth.useBiometric /\ auth.hasPassword /\ auth.gate = "ok")
        => (auth.res /\ auth.path = "none")
  /\ (auth.useBiometric /\ (auth.pc = "derive" \/ auth.path # "none"))
        => auth.gate = "fail"

\* the gate lets in a call that carries no password
C7_Witness ==
  /\ Returned /\ auth.useBiometric /\ auth.hasPassword /\ auth.gate = "ok"
  /\ ~auth.pw.given /\ auth.res

\* C8: a scope with useBiometric = false and no stored hash is unprotected:
\* authenticate returns true for every argument.
C8_UnprotectedAlwaysOpens ==
  (Returned /\ auth.clean /\ ~auth.useBiometric /\ ~Truthy(auth.hash0))
     => auth.res

\* C9 (as claimed): a credential whose hash is legacyHash(p) and whose salt
\* is absent verifies with p through authenticate (biometric disabled), for
\* every p; the salted path is taken exactly when a salt is stored.
C9_AsClaimed ==
  /\ ( /\ Returned /\ auth.clean /\ ~auth.useBiometric /\ auth.pw.given
       /\ ~Truthy(auth.salt0) /\ auth.hash0 = hashPassword(auth.pw.s) )
        => auth.res
  /\ auth.path # "none" => (auth.path = "salted" <=> Truthy(auth.storedSalt))

\* C9 (amended): the same for every non-empty password p.
C9_LegacyCompatibility ==
  /\ ( /\ Returned /\ auth.clean /\ ~auth.useBiometric /\ ArgTruthy(auth.pw)
       /\ ~Truthy(auth.salt0) /\ auth.hash0 = hashPassword(auth.pw.s) )
        => auth.res
  /\ auth.path # "none" => (auth.path = "salted" <=> Truthy(auth.storedSalt))

\* a legacy credential has been verified on the legacy path
C9_Witness ==
  /\ Returned /\ auth.clean /\ ~auth.useBiometric /\ auth.hasPassword
  /\ ArgTruthy(auth.pw) /\ ~Truthy(auth.salt0)
  /\ auth.hash0 = hashPassword(auth.pw.s) /\ auth.path = "legacy" /\ auth.res

\* C10: authenticate never throws: it resolves to a boolean for every
\* stored credential state.
C10_NeverThrows == auth.pc # "threw"


\* no hash, no salt and no flag is stored for the scope
AllAbsent(ls, scope) ==
  /\ StoredHash(ls, scope) = NULL
  /\ StoredSalt(ls, scope) = NULL
  /\ IF scope = HIDDEN THEN ls.npd_hidden_notes_use_biometric = "null"
     ELSE ls.npd_note_protection[scope] = AbsentEntry

\* some of the three have been removed and the others are stored: the
\* flag of a note is gone and a hash or a salt is there, or the hash is gone
\* and the salt is there
HalfCleared(ls, scope) ==
  \/ StoredHash(ls, scope) = NULL /\ StoredSalt(ls, scope) # NULL
  \/ /\ scope # HIDDEN
     /\ ls.npd_note_protection[scope] = AbsentEntry
     /\ StoredHash(ls, scope) # NULL

\* C15: clearHiddenNotesProtection / removeNoteProtection leave no hash, no
\* salt and no flag for the scope, and no interleaving with other
\* operations, a password-setting call suspended in the key derivation
\* included, shows a state in which only some of the three are removed.
C15_AtomicClear ==
  \A sc \in Scopes :
     /\ lastSet[sc] = Cleared => AllAbsent(localStorage, sc)
     /\ ~HalfCleared(localStorage, sc)

\* a password-setting call on the scope is invoked in this step
SetPasswordCalled(sc) ==
  \E i \in SetterIds :
     setter[i].pc = "idle" /\ setter'[i].pc = "derive" /\ setter'[i].scope = sc

\* the hash and the salt of a password-setting call are stored in this step
CredentialStored(sc) ==
  /\ <<StoredHash(localStorage', sc), StoredSalt(localStorage', sc)>>
        # <<StoredHash(localStorage, sc), StoredSalt(localStorage, sc)>>
  /\ StoredHash(localStorage', sc) # NULL

\* the hash and the salt of the note are as they were
NoteKeysKept(n) ==
  /\ StoredHash(localStorage', n) = StoredHash(localStorage, n)
  /\ StoredSalt(localStorage', n) = StoredSalt(localStorage, n)

\* C17, as stated: setting the password of a scope leaves its useBiometric
\* as it was, from the call to the storing of the hash, for the hidden-notes
\* scope and for the notes alike.
C17_AsClaimed ==
  [][ \A sc \in Scopes :
        (SetPasswordCalled(sc) \/ CredentialStored(sc)) =>
           Settings(localStorage', sc).useBiometric
              = Settings(localStorage, sc).useBiometric
    ]_vars

\* C17: setHiddenNotesPassword makes hasPassword true and leaves
\* useBiometric as it was; setHiddenNotesBiometric(enabled) sets useBiometric
\* to enabled and leaves the hash and the salt as they were.  For a note the
\* two flags are written together: setNoteProtection stores the flags it is
\* given; the hash and the salt it stores after the key derivation leave the
\* flags as they were; without a password it leaves the hash and the salt as
\* they were when protection.hasPassword is true and removes them when it
\* is false.
C17_FactorWrites ==
  [][ /\ lastSet'[HIDDEN].kind = "set" =>
            getHiddenNotesSettings(localStorage').hasPassword
      /\ lastSet'[HIDDEN].kind = "bio" =>
            localStorage'.npd_hidden_notes_use_biometric
               = (IF lastSet'[HIDDEN] = Switched(TRUE) THEN "true" ELSE "false")
      /\ (SetPasswordCalled(HIDDEN) \/ CredentialStored(HIDDEN)) =>
            localStorage'.npd_hidden_notes_use_biometric
               = localStorage.npd_hidden_notes_use_biometric
      /\ localStorage'.npd_hidden_notes_use_biometric \in {"true", "false"}
           /\ lastSet'[HIDDEN].kind = "bio" =>
            /\ StoredHash(localStorage', HIDDEN) = StoredHash(localStorage, HIDDEN)
            /\ StoredSalt(localStorage', HIDDEN) = StoredSalt(localStorage, HIDDEN)
      /\ \A n \in NoteIds :
            /\ CredentialStored(n) =>
                  localStorage'.npd_note_protection[n]
                     = localStorage.npd_note_protection[n]
            /\ ( /\ localStorage'.npd_note_protection[n]
                       # localStorage.npd_note_protection[n]
                 /\ localStorage'.npd_note_protection[n].kind = "json" ) =>
                  \/ NoteKeysKept(n)
                  \/ /\ ~localStorage'.npd_note_protection[n].hasPassword
                     /\ StoredHash(localStorage', n) = NULL
                     /\ StoredSalt(localStorage', n) = NULL
    ]_vars

\* the biometric flag of the hidden-notes scope was switched on after a
\* password had been set, and the password is still accepted
C17_Witness ==
  /\ lastSet[HIDDEN] = Switched(TRUE)
  /\ localStorage.npd_hidden_notes_use_biometric = "true"
  /\ Truthy(StoredHash(localStorage, HIDDEN))
  /\ Truthy(StoredSalt(localStorage, HIDDEN))
  /\ Returned /\ auth.scope = HIDDEN /\ auth.gate = "fail" /\ auth.res

(***************************************************************************)
(* Per-note operations on a device that holds credentials of another note, *)
(* of the hidden-notes scope and a security answer.                        *)
(***************************************************************************)
\* the notes that no operation other than authenticateForNote is invoked on
Bystanders == StoredNotes \ NoteIds

\* the keys of a note: npd_note_protection_<id>, npd_note_password_<id>,
\* npd_note_salt_<id>
NoteKeys(ls, n) ==
  <<ls.npd_note_protection[n], ls.npd_note_password[n], ls.npd_note_salt[n]>>

\* the keys of the hidden-notes scope and of the security question
GlobalKeys(ls) ==
  <<ls.npd_hidden_notes_password, ls.npd_hidden_notes_salt,
    ls.npd_hidden_notes_use_biometric, ls.npd_security_answer>>

\* a password stored for note n by setNoteProtection, or before the salted
\* scheme
Protected(ls, n, ub, hash, salt) ==
  [ls EXCEPT
     !.npd_note_protection[n] = JsonEntry([hasPassword |-> TRUE, useBiometric |-> ub]),
     !.npd_note_password[n] = hash,
     !.npd_note_salt[n] = salt]

IsoInit ==
  /\ cryptoOK \in BOOLEAN
  /\ native \in BOOLEAN
  /\ \E b \in Bystanders, ub \in BOOLEAN, salt \in Salts \cup {NULL},
        global \in {EmptyStorage,
                    [LegacyHidden(PasswordPool[2], "true") EXCEPT
                        !.npd_security_answer = hashPassword(PasswordPool[4])]},
        own \in BOOLEAN :
        LET p == PasswordPool[2]
            hash == IF salt = NULL THEN hashPassword(p)
                    ELSE hashPasswordAsync(cryptoOK, p, salt)
            ls == Protected(global, b, ub, hash, salt)
        IN  localStorage =
              IF own THEN Protected(ls, NotePool[1], FALSE, hashPassword(p), NULL)
              ELSE ls
  /\ auth = IdleAuth
  /\ setter = [i \in SetterIds |-> IdleSetter]
  /\ lastSet = [s \in Scopes |-> NoHistory]
  \* what the device already holds was written by an earlier operation
  /\ ops = 1
  /\ idb = EmptySnap
  /\ StoreIdle

IsoNext ==
  \/ \E noteId \in StoredNotes, password \in PwArgs :
        authenticateForNote(noteId, password)
  \/ \E verified \in BOOLEAN : BiometricReturns(verified)
  \/ VerifyReturns
  \/ \E i \in SetterIds, noteId \in NoteIds, protection \in NoteProtections,
        password \in PwArgs, salt \in Salts :
        setNoteProtection(i, noteId, protection, password, salt)
  \/ \E i \in SetterIds : DerivationReturns(i)
  \/ \E noteId \in NoteIds : removeNoteProtection(noteId)

IsoSpec == IsoInit /\ [][IsoNext]_vars

\* what authenticateForNote(b, password) returns on the keys stored for b
Outcome(ls, b, password, gate) ==
  LET protection == getNoteProtection(ls, b)
  IN  \/ ~protection.hasPassword /\ ~protection.useBiometric
      \/ protection.useBiometric /\ gate = "ok"
      \/ /\ ArgTruthy(password) /\ protection.hasPassword
         /\ Truthy(StoredHash(ls, b))
         /\ Verifies(password.s, StoredHash(ls, b), StoredSalt(ls, b))

\* C16: the per-note operations on a note a (setNoteProtection,
\* removeNoteProtection, authenticateForNote with its verifyNotePassword)
\* leave the keys of every other note b, of the hidden-notes scope and of
\* the security question as they are, and what authenticateForNote(b, p)
\* returns is decided by the keys of b, whatever was done to a.
C16_ScopeIsolation ==
  [][ /\ \A b \in Bystanders : NoteKeys(localStorage', b) = NoteKeys(localStorage, b)
      /\ GlobalKeys(localStorage') = GlobalKeys(localStorage)
      /\ \A b \in Bystanders :
            (auth'.pc = "done" /\ auth'.scope = b) =>
               (auth'.res <=> Outcome(localStorage', b, auth'.pw, auth'.gate))
    ]_vars

\* the password of b is accepted after the credentials of a were removed
C16_Witness ==
  \E a \in NoteIds, b \in Bystanders :
    /\ lastSet[a] = Cleared
    /\ AllAbsent(localStorage, a)
    /\ auth.pc = "done" /\ auth.scope = b /\ auth.gate # "ok"
    /\ auth.pw.given /\ auth.res
    /\ GlobalKeys(localStorage) # GlobalKeys(EmptyStorage)

(***************************************************************************)
(* Record Store: saveNotesToDB.                                            *)
(*                                                                         *)
(* The object store lives in IndexedDB: a read-write transaction works on  *)
(* its own view of the store (txStore), transactions on the store run one  *)
(* at a time in the order of their creation (txQueue), and idb, what is    *)
(* durable, changes only when a transaction completes.                     *)
(***************************************************************************)
\* store.clear()
clear(store) == EmptySnap

\* notes.forEach(note => store.put(...)): every note is stored under its id
putAll(store, notes) ==
  [r \in RecIds |-> IF notes[r] # 0 THEN notes[r] ELSE store[r]]

\* store.delete(noteId); the call record marks the id in its notes
delete(store, notes) ==
  [r \in RecIds |-> IF notes[r] # 0 THEN 0 ELSE store[r]]

\* the argument of saveNoteToDBSingle (a note) and of deleteNoteFromDB (an
\* id) as the notes of a call record
One(r, v) == [EmptySnap EXCEPT ![r] = v]

\* a single-record writer that clears the store first, as saveNotesToDB does
FirstRequest_Clear(kind, store, notes) ==
  CASE kind = "saveAll" -> clear(store)
    [] kind = "saveOne" -> putAll(clear(store), notes)
    [] kind = "deleteOne" -> delete(store, notes)

\* the request that a writer issues when it creates its transaction
FirstRequest(kind, store, notes) ==
  CASE kind = "saveAll" -> clear(store)
    [] kind = "saveOne" -> putAll(store, notes)
    [] kind = "deleteOne" -> delete(store, notes)

\* the slot holds no call in flight that anyone still waits for
Free(p) == proc[p].pc \in Settled /\ ~(mig.pc = "await" /\ mig.child = p)

\* a new call takes the first free slot
FirstFree(p) == Free(p) /\ \A q \in ProcIds : q < p => ~Free(q)

\* the position of a call whose transaction has been created: a writer has
\* requests to carry out, loadNotesFromDB waits for the result of getAll
Created(kind) == IF kind = "loadAll" THEN "reading" ELSE "queued"

\* a call up to the point where it is suspended: openDB resolves
\* with the cached handle and the transaction is created, or
\* indexedDB.open is requested
StartCall(p, kind, notes, by) ==
  /\ proc' = [proc EXCEPT ![p] =
                [kind |-> kind, pc |-> IF db THEN Created(kind) ELSE "opening",
                 notes |-> notes, by |-> by, out |-> "none"]]
  /\ txQueue' = IF db THEN Append(txQueue, p) ELSE txQueue

StartSave(p, notes, by) == StartCall(p, "saveAll", notes, by)

\* the UI calls saveNotesToDB(notes)
saveNotesToDB(p, notes) ==
  /\ FirstFree(p)
  /\ ops < MaxCalls
  /\ StartSave(p, notes, "ui")
  /\ ops' = ops + 1
  /\ UNCHANGED <<localStorage, protVars, idb, db, txStore, mig, saveTimeout,
                 timers, now, calls, fired>>

\* the UI calls saveNoteToDBSingle(note)
saveNoteToDBSingle(p, r, v) ==
  /\ FirstFree(p)
  /\ ops < MaxCalls
  /\ StartCall(p, "saveOne", One(r, v), "ui")
  /\ ops' = ops + 1
  /\ UNCHANGED <<localStorage, protVars, idb, db, txStore, mig, saveTimeout,
                 timers, now, calls, fired>>

\* the UI calls deleteNoteFromDB(noteId)
deleteNoteFromDB(p, r) ==
  /\ FirstFree(p)
  /\ ops < MaxCalls
  /\ StartCall(p, "deleteOne", One(r, 1), "ui")
  /\ ops' = ops + 1
  /\ UNCHANGED <<localStorage, protVars, idb, db, txStore, mig, saveTimeout,
                 timers, now, calls, fired>>

\* the UI calls loadNotesFromDB()
loadNotesFromDB(p) ==
  /\ FirstFree(p)
  /\ ops < MaxCalls
  /\ StartCall(p, "loadAll", EmptySnap, "ui")
  /\ ops' = ops + 1
  /\ UNCHANGED <<localStorage, protVars, idb, db, txStore, mig, saveTimeout,
                 timers, now, calls, fired>>

\* saveNoteToDBSingle: building the record throws in the executor of the
\* promise (toISOString of an invalid date), before any request: the
\* promise is rejected, and the transaction, left without requests,
\* completes without a change
PutThrows(p) ==
  /\ proc[p].kind = "saveOne" /\ proc[p].pc = "queued"
  /\ proc' = [proc EXCEPT ![p].pc = "rejected"]
  /\ txQueue' = SelectSeq(txQueue, LAMBDA q : q # p)
  /\ UNCHANGED <<localStorage, ops, protVars, idb, db, txStore, mig, saveTimeout,
                 timers, now, calls, fired>>

\* getAll of the read-only transaction succeeds: request.onsuccess revives
\* the records and resolves with them
ReadSuccess(p) ==
  /\ txQueue # <<>> /\ Head(txQueue) = p
  /\ proc[p].pc = "reading"
  /\ proc' = [proc EXCEPT ![p].pc = "resolved", ![p].out = "read",
                          ![p].notes = idb]
  /\ txQueue' = Tail(txQueue)
  /\ UNCHANGED <<localStorage, ops, protVars, idb, db, txStore, mig, saveTimeout,
                 timers, now, calls, fired>>

\* getAll fails: request.onerror rejects the promise that loadNotesFromDB
\* has returned without awaiting it, so its catch does not run
ReadError(p) ==
  /\ txQueue # <<>> /\ Head(txQueue) = p
  /\ proc[p].pc = "reading"
  /\ proc' = [proc EXCEPT ![p].pc = "rejected"]
  /\ txQueue' = Tail(txQueue)
  /\ UNCHANGED <<localStorage, ops, protVars, idb, db, txStore, mig, saveTimeout,
                 timers, now, calls, fired>>

\* a writer that, when the database cannot be opened, stores nothing, logs
\* and returns, and a loader that then returns [] without reading 'notes'
OpenFailed_NoFallback(call, ls) ==
  IF call.kind = "loadAll"
  THEN [call EXCEPT !.pc = "resolved", !.out = "fallback", !.notes = EmptySnap]
  ELSE [call EXCEPT !.pc = "resolved", !.out = "logged"]

\* the catch blocks: a writer logs and returns (the call resolves, and
\* nothing is written anywhere); loadNotesFromDB returns
\* loadNotesFromLocalStorage()
OpenFailed(call, ls) ==
  IF call.kind = "loadAll"
  THEN [call EXCEPT !.pc = "resolved", !.out = "fallback",
                    !.notes = loadNotesFromLocalStorage(ls)]
  ELSE [call EXCEPT !.pc = "resolved", !.out = "logged"]

\* indexedDB.open answers: onsuccess sets db and the transaction is
\* created; onerror rejects, and the catch of the caller runs
OpenReturns(p, ok) ==
  /\ proc[p].pc = "opening"
  /\ IF ok
     THEN /\ db' = TRUE
          /\ proc' = [proc EXCEPT ![p].pc = Created(proc[p].kind)]
          /\ txQueue' = Append(txQueue, p)
     ELSE /\ proc' = [proc EXCEPT ![p] = OpenFailed(proc[p], localStorage)]
          /\ UNCHANGED <<db, txQueue>>
  /\ UNCHANGED <<localStorage, ops, protVars, idb, txStore, mig, saveTimeout,
                 timers, now, calls, fired>>

\* a clear that is carried out on the durable store at once
TxBegin_Durable(p) ==
  /\ txQueue # <<>> /\ Head(txQueue) = p
  /\ proc[p].pc = "queued"
  /\ txStore' = FirstRequest(proc[p].kind, idb, proc[p].notes)
  /\ idb' = FirstRequest(proc[p].kind, idb, proc[p].notes)
  /\ proc' = [proc EXCEPT ![p].pc =
                IF proc[p].kind = "saveAll" THEN "cleared" ELSE "written"]
  /\ UNCHANGED <<localStorage, ops, protVars, db, txQueue, mig, saveTimeout,
                 timers, now, calls, fired>>

\* the transaction starts and carries out its first request: store.clear()
\* of saveNotesToDB, whose puts follow in clearRequest.onsuccess; the put of
\* saveNoteToDBSingle; the delete of deleteNoteFromDB
TxBegin(p) ==
  /\ txQueue # <<>> /\ Head(txQueue) = p
  /\ proc[p].pc = "queued"
  /\ txStore' = FirstRequest(proc[p].kind, idb, proc[p].notes)
  /\ proc' = [proc EXCEPT ![p].pc =
                IF proc[p].kind = "saveAll" THEN "cleared" ELSE "written"]
  /\ UNCHANGED <<localStorage, ops, protVars, idb, db, txQueue, mig,
                 saveTimeout, timers, now, calls, fired>>

\* clearRequest.onsuccess: the notes are serialised and put; an exception
\* in the handler (toISOString of an invalid date, a value that cannot be
\* cloned) aborts the transaction, and no error event reaches
\* transaction.onerror
ClearSuccess(p, ok) ==
  /\ proc[p].pc = "cleared"
  /\ ~ok => NotesOf(proc[p].notes) # {}
  /\ IF ok
     THEN /\ txStore' = putAll(txStore, proc[p].notes)
          /\ proc' = [proc EXCEPT ![p].pc = "written"]
          /\ UNCHANGED txQueue
     ELSE /\ txStore' = EmptySnap
          /\ proc' = [proc EXCEPT ![p].pc = "hung"]
          /\ txQueue' = Tail(txQueue)
  /\ UNCHANGED <<localStorage, ops, protVars, idb, db, mig, saveTimeout,
                 timers, now, calls, fired>>

\* a request of the transaction fails: the error event reaches
\* transaction.onerror, which rejects, and the transaction aborts
RequestError(p) ==
  /\ proc[p].pc \in {"cleared", "written"}
  /\ proc[p].pc = "written" => NotesOf(proc[p].notes) # {}
  /\ txStore' = EmptySnap
  /\ proc' = [proc EXCEPT ![p].pc = "rejected"]
  /\ txQueue' = Tail(txQueue)
  /\ UNCHANGED <<localStorage, ops, protVars, idb, db, mig, saveTimeout,
                 timers, now, calls, fired>>

\* the transaction completes: its view becomes durable; oncomplete resolves
Commit(p) ==
  /\ proc[p].pc = "written"
  /\ idb' = txStore
  /\ txStore' = EmptySnap
  /\ proc' = [proc EXCEPT ![p].pc = "resolved", ![p].out = "committed"]
  /\ txQueue' = Tail(txQueue)
  /\ UNCHANGED <<localStorage, ops, protVars, db, mig, saveTimeout, timers,
                 now, calls, fired>>

\* the backend aborts the transaction when committing (quota): an abort
\* event, for which the code has no handler
CommitFails(p) ==
  /\ proc[p].pc = "written"
  /\ txStore' = EmptySnap
  /\ proc' = [proc EXCEPT ![p].pc = "hung"]
  /\ txQueue' = Tail(txQueue)
  /\ UNCHANGED <<localStorage, ops, protVars, idb, db, mig, saveTimeout,
                 timers, now, calls, fired>>

\* the application is closed or killed: what is in memory is lost, what
\* is durable (the object store, localStorage) stays
Crash ==
  /\ db' = FALSE
  /\ proc' = [p \in ProcIds |-> IdleProc]
  /\ txQueue' = <<>>
  /\ txStore' = EmptySnap
  /\ mig' = [IdleMig EXCEPT !.had = mig.had]
  /\ saveTimeout' = 0
  /\ timers' = {}
  /\ now' = 0
  /\ calls' = NoCalls
  /\ fired' = NoFired
  /\ UNCHANGED <<localStorage, ops, protVars, idb>>

(***************************************************************************)
(* Write Scheduler: debouncedSaveNotes.                                    *)
(***************************************************************************)
\* a scheduler that does not keep the handle of the timer it sets
debouncedSaveNotes_LostHandle(notes, delay) ==
  /\ ops < MaxCalls
  /\ LET kept == IF saveTimeout # 0
                 THEN {t \in timers : t.id # saveTimeout} ELSE timers
     IN  timers' = kept \cup {[id |-> calls.n + 1, due |-> now + delay, notes |-> notes]}
  /\ saveTimeout' = saveTimeout
  /\ calls' = [n |-> calls.n + 1, t |-> now, delay |-> delay, notes |-> notes]
  /\ fired' = [fired EXCEPT !.forLast = 0]
  /\ ops' = ops + 1
  /\ UNCHANGED <<localStorage, protVars, idb, db, proc, txQueue, txStore, mig, now>>

\* a scheduler that sets its timer without clearing the previous one
debouncedSaveNotes_NoClear(notes, delay) ==
  /\ ops < MaxCalls
  /\ timers' = timers \cup {[id |-> calls.n + 1, due |-> now + delay, notes |-> notes]}
  /\ saveTimeout' = calls.n + 1
  /\ calls' = [n |-> calls.n + 1, t |-> now, delay |-> delay, notes |-> notes]
  /\ fired' = [fired EXCEPT !.forLast = 0]
  /\ ops' = ops + 1
  /\ UNCHANGED <<localStorage, protVars, idb, db, proc, txQueue, txStore, mig, now>>

\* clearTimeout(saveTimeout) if it is set, then setTimeout(..., delay)
debouncedSaveNotes(notes, delay) ==
  /\ ops < MaxCalls
  /\ LET kept == IF saveTimeout # 0
                 THEN {t \in timers : t.id # saveTimeout} ELSE timers
     IN  timers' = kept \cup {[id |-> calls.n + 1, due |-> now + delay, notes |-> notes]}
  /\ saveTimeout' = calls.n + 1
  /\ calls' = [n |-> calls.n + 1, t |-> now, delay |-> delay, notes |-> notes]
  /\ fired' = [fired EXCEPT !.forLast = 0]
  /\ ops' = ops + 1
  /\ UNCHANGED <<localStorage, protVars, idb, db, proc, txQueue, txStore, mig, now>>

\* a timer that is due fires: its callback calls saveNotesToDB(notes)
TimerFires(t, p) ==
  /\ t \in timers /\ t.due <= now
  /\ FirstFree(p)
  /\ timers' = timers \ {t}
  /\ StartSave(p, t.notes, "timer")
  /\ fired' = IF t.id = calls.n
              THEN [fired EXCEPT !.n = @ + 1, !.forLast = @ + 1,
                                 !.t = now, !.notes = t.notes]
              ELSE [fired EXCEPT !.n = @ + 1, !.stale = @ + 1]
  /\ UNCHANGED <<localStorage, ops, protVars, idb, db, txStore, mig, saveTimeout,
                 now, calls>>

\* time passes, once the timers that are due have fired
Tick ==
  /\ now < MaxTime
  /\ \A t \in timers : t.due > now
  /\ now' = now + 1
  /\ UNCHANGED <<localStorage, ops, protVars, idb, db, proc, txQueue, txStore, mig,
                 saveTimeout, timers, calls, fired>>

(***************************************************************************)
(* Record Store: migrateNotesToIndexedDB.                                  *)
(***************************************************************************)
\* localStorage.removeItem('notes')
RemoveLegacy(ls) == [ls EXCEPT !.notes = NoLegacy]

\* migrateNotesToIndexedDB up to  await saveNotesToDB(notes) , or to its
\* end when the flag is set or there is nothing to migrate
migrateNotesToIndexedDB(p) ==
  /\ mig.pc \in {"idle", "done"}
  /\ ops < MaxCalls
  /\ LET m == [mig EXCEPT !.second = (mig.pc = "done"), !.child = 0,
                          !.res = FALSE, !.notes0 = localStorage.notes,
                          !.flag0 = localStorage.notes_migrated_to_indexeddb,
                          !.idb0 = idb]
         notes == loadNotesFromLocalStorage(localStorage)
     IN  IF localStorage.notes_migrated_to_indexeddb = "true"
         THEN /\ localStorage' = RemoveLegacy(localStorage)
              /\ mig' = [m EXCEPT !.pc = "done"]
              /\ UNCHANGED <<proc, txQueue>>
         ELSE IF NotesOf(notes) # {}
         THEN /\ FirstFree(p)
              /\ StartSave(p, notes, "mig")
              /\ mig' = [m EXCEPT !.pc = "await", !.child = p]
              /\ UNCHANGED localStorage
         ELSE /\ localStorage' =
                   [localStorage EXCEPT !.notes_migrated_to_indexeddb = "true"]
              /\ mig' = [m EXCEPT !.pc = "done"]
              /\ UNCHANGED <<proc, txQueue>>
  /\ ops' = ops + 1
  /\ UNCHANGED <<protVars, idb, db, txStore, saveTimeout, timers, now, calls, fired>>

\* a migration that sets the flag but leaves the legacy copy
MigrationResumes_NoPurge ==
  /\ mig.pc = "await"
  /\ proc[mig.child].pc \in {"resolved", "rejected"}
  /\ IF proc[mig.child].pc = "resolved"
     THEN /\ localStorage' =
               [localStorage EXCEPT !.notes_migrated_to_indexeddb = "true"]
          /\ mig' = [mig EXCEPT !.pc = "done", !.res = TRUE]
     ELSE /\ mig' = [mig EXCEPT !.pc = "done", !.res = FALSE]
          /\ UNCHANGED localStorage
  /\ UNCHANGED <<ops, protVars, idb, db, proc, txQueue, txStore, saveTimeout, timers,
                 now, calls, fired>>

\* the awaited saveNotesToDB has settled: when resolved the flag is set and
\* the legacy copy removed; when rejected the catch returns false
MigrationResumes ==
  /\ mig.pc = "await"
  /\ proc[mig.child].pc \in {"resolved", "rejected"}
  /\ IF proc[mig.child].pc = "resolved"
     THEN /\ localStorage' = RemoveLegacy(
               [localStorage EXCEPT !.notes_migrated_to_indexeddb = "true"])
          /\ mig' = [mig EXCEPT !.pc = "done", !.res = TRUE]
     ELSE /\ mig' = [mig EXCEPT !.pc = "done", !.res = FALSE]
          /\ UNCHANGED localStorage
  /\ UNCHANGED <<ops, protVars, idb, db, proc, txQueue, txStore, saveTimeout, timers,
                 now, calls, fired>>

(***************************************************************************)
(* The Record Store and the Write Scheduler in use.                        *)
(***************************************************************************)
ProtectionIdle ==
  /\ cryptoOK = TRUE
  /\ native = FALSE
  /\ auth = IdleAuth
  /\ setter = [i \in SetterIds |-> IdleSetter]
  /\ lastSet = [s \in Scopes |-> NoHistory]

StoreInit ==
  /\ localStorage = EmptyStorage
  /\ ProtectionIdle
  /\ ops = 0
  /\ idb \in Snapshots
  /\ StoreIdle

TxNext ==
  \/ \E p \in ProcIds, ok \in BOOLEAN : OpenReturns(p, ok)
  \/ \E p \in ProcIds : TxBegin(p)
  \/ \E p \in ProcIds, ok \in BOOLEAN : ClearSuccess(p, ok)
  \/ \E p \in ProcIds : RequestError(p)
  \/ \E p \in ProcIds : Commit(p)
  \/ \E p \in ProcIds : CommitFails(p)

StoreNext ==
  \/ \E p \in ProcIds, notes \in Snapshots : saveNotesToDB(p, notes)
  \/ \E p \in ProcIds, r \in RecIds, v \in 1..NumRevs : saveNoteToDBSingle(p, r, v)
  \/ \E p \in ProcIds, r \in RecIds : deleteNoteFromDB(p, r)
  \/ \E p \in ProcIds : PutThrows(p)
  \/ TxNext
  \/ Crash

StoreSpec == StoreInit /\ [][StoreNext]_vars

\* loading and saving on a device that may hold the legacy list
LoadInit ==
  /\ \E legacy \in LegacyEntries :
        localStorage = [EmptyStorage EXCEPT !.notes = legacy]
  /\ ProtectionIdle
  /\ ops = 0
  /\ idb \in Snapshots
  /\ StoreIdle

LoadNext ==
  \/ \E p \in ProcIds : loadNotesFromDB(p)
  \/ \E p \in ProcIds : ReadSuccess(p)
  \/ \E p \in ProcIds : ReadError(p)
  \/ \E p \in ProcIds, notes \in Snapshots : saveNotesToDB(p, notes)
  \/ TxNext

LoadSpec == LoadInit /\ [][LoadNext]_vars

SchedNext ==
  \/ \E notes \in Snapshots, delay \in 1..MaxDelay : debouncedSaveNotes(notes, delay)
  \/ \E t \in timers, p \in ProcIds : TimerFires(t, p)
  \/ Tick
  \/ TxNext

SchedSpec == StoreInit /\ [][SchedNext]_vars

(***************************************************************************)
(* Start-up of the application on a device that may hold the legacy list.  *)
(***************************************************************************)
MigInit ==
  /\ \E legacy \in LegacyEntries, flag \in {"null", "true"} :
        /\ localStorage = [EmptyStorage EXCEPT !.notes = legacy,
                             !.notes_migrated_to_indexeddb = flag]
        /\ idb \in Snapshots
        \* a set flag says that the legacy notes have been stored
        /\ flag = "true" =>
              \A r \in NotesOf(legacy.list) : idb[r] = legacy.list[r]
        /\ mig = [IdleMig EXCEPT !.had = loadNotesFromLocalStorage(localStorage)]
  /\ ProtectionIdle
  /\ ops = 0
  /\ db = FALSE
  /\ proc = [p \in ProcIds |-> IdleProc]
  /\ txQueue = <<>>
  /\ txStore = EmptySnap
  /\ saveTimeout = 0
  /\ timers = {}
  /\ now = 0
  /\ calls = NoCalls
  /\ fired = NoFired
  /\ util = NoUtil

MigNext ==
  \/ \E p \in ProcIds : migrateNotesToIndexedDB(p)
  \/ MigrationResumes
  \/ TxNext
  \/ Crash

MigSpec == MigInit /\ [][MigNext]_vars


(***************************************************************************)
(* Properties of the Record Store and the Write Scheduler.                 *)
(***************************************************************************)
\* the transaction of call p completes in this step
Commits(p) == proc[p].pc = "written" /\ proc'[p].pc = "resolved"

\* C3: saveNotesToDB replaces the stored collection in one transaction: the
\* durable collection changes only in the step in which a transaction
\* completes, and when the transaction of saveNotesToDB(notes) completes the
\* stored records are exactly the given notes; between the clear and the
\* commit, and after a crash or an abort, the prior collection is what is
\* stored.
C3_AtomicReplace ==
  [][ /\ idb' # idb => \E p \in ProcIds : Commits(p)
      /\ \A p \in ProcIds :
            Commits(p) /\ proc[p].kind = "saveAll" => idb' = proc[p].notes
    ]_vars

\* two calls have committed one after the other, and a record that the
\* first one stored and the second one was not given is gone
C3_Witness ==
  \E p, q \in ProcIds :
    /\ p # q
    /\ proc[p].kind = "saveAll" /\ proc[q].kind = "saveAll"
    /\ proc[p].pc = "resolved" /\ proc[p].out = "committed"
    /\ proc[q].pc = "resolved" /\ proc[q].out = "committed"
    /\ idb = proc[p].notes /\ NotesOf(idb) # {}
    /\ \E r \in RecIds : proc[q].notes[r] # 0 /\ idb[r] = 0

\* C4: migration loses no data: every note of the legacy list is stored in
\* the legacy list or in the object store, in every state during and after
\* migrateNotesToIndexedDB.
C4_NoDataLoss ==
  \A r \in NotesOf(mig.had) :
     \/ loadNotesFromLocalStorage(localStorage)[r] = mig.had[r]
     \/ idb[r] = mig.had[r]

\* the second of two invocations in succession has returned
SecondReturned == mig.pc = "done" /\ mig.second

\* C5: as stated: the second of two invocations in succession writes
\* nothing (object store, legacy list, flag) and reports that nothing was
\* migrated, from any starting state.
C5_AsClaimed ==
  SecondReturned =>
     /\ localStorage.notes = mig.notes0
     /\ localStorage.notes_migrated_to_indexeddb = mig.flag0
     /\ idb = mig.idb0
     /\ ~mig.res

\* C5: when the previous invocation returned with the flag set, the next
\* one leaves the object store and the flag as they are and reports that
\* nothing was migrated, and the only write it may do is to remove a legacy
\* entry that holds no notes.
C5_IdempotentOnceFlagged ==
  SecondReturned /\ mig.flag0 = "true" =>
     /\ localStorage.notes_migrated_to_indexeddb = mig.flag0
     /\ idb = mig.idb0
     /\ ~mig.res
     /\ \/ localStorage.notes = mig.notes0
        \/ /\ localStorage.notes = NoLegacy
           /\ mig.notes0.kind # "json" \/ NotesOf(mig.notes0.list) = {}

\* the legacy notes have been migrated by the first invocation, and the
\* second one has returned
C5_Witness ==
  /\ SecondReturned /\ mig.flag0 = "true"
  /\ NotesOf(mig.had) # {} /\ idb = mig.had
  /\ localStorage.notes = NoLegacy

\* C6: of a burst of debouncedSaveNotes calls, each made before the timer
\* of the previous one is due, only the timer of the last call fires: once,
\* one delay after that call, and with the notes given to that call.
C6_Coalescing ==
  /\ fired.stale = 0
  /\ fired.forLast <= 1
  /\ fired.forLast = 1 =>
        /\ fired.t = calls.t + calls.delay
        /\ fired.notes = calls.notes
  /\ calls.n > 0 /\ now > calls.t + calls.delay => fired.forLast = 1

\* two calls in a burst, one saveNotesToDB, with the notes of the second
C6_Witness ==
  /\ calls.n >= 2 /\ calls.t > 0
  /\ fired.n = 1 /\ fired.forLast = 1
  /\ NotesOf(calls.notes) # {}
  /\ \E p \in ProcIds : proc[p].by = "timer" /\ proc[p].notes = calls.notes
                          /\ proc[p].out = "committed" /\ idb = calls.notes


\* indexedDB.open has failed for call p in this step
OpenFails(p) == proc[p].pc = "opening" /\ proc'[p].pc = "resolved"

\* C11: when the database cannot be opened, saveNotesToDB writes nothing:
\* neither 'notes' in localStorage nor the object store changes, and the
\* call logs and returns; loadNotesFromDB in the same situation returns the
\* list read from 'notes'.  No step of a save or a load writes localStorage.
C11_AsymmetricFallback ==
  [][ /\ localStorage' = localStorage
      /\ \A p \in ProcIds :
            OpenFails(p) =>
               /\ idb' = idb
               /\ proc[p].kind = "saveAll" =>
                     proc'[p].out = "logged" /\ proc'[p].notes = proc[p].notes
               /\ proc[p].kind = "loadAll" =>
                     /\ proc'[p].out = "fallback"
                     /\ proc'[p].notes = loadNotesFromLocalStorage(localStorage)
    ]_vars

\* the database could not be opened for a save and for a load: the notes
\* given to the save are stored nowhere, the load has returned the legacy
\* notes
C11_Witness ==
  \E p, q \in ProcIds :
    /\ proc[p].kind = "saveAll" /\ proc[p].pc = "resolved" /\ proc[p].out = "logged"
    /\ NotesOf(proc[p].notes) # {}
    /\ proc[p].notes # idb
    /\ proc[p].notes # loadNotesFromLocalStorage(localStorage)
    /\ proc[q].kind = "loadAll" /\ proc[q].pc = "resolved" /\ proc[q].out = "fallback"
    /\ NotesOf(proc[q].notes) # {}
    /\ proc[q].notes = loadNotesFromLocalStorage(localStorage)

\* C12: loadNotesFromDB never rejects: it resolves to a list of notes also
\* when the database cannot be opened and when the read request fails.
C12_LoadNeverRejects ==
  \A p \in ProcIds : proc[p].kind = "loadAll" => proc[p].pc # "rejected"


(***************************************************************************)
(* Record Store: the stored form of a note.                                *)
(*                                                                         *)
(* A Date is a time value in milliseconds, or the invalid date.  The       *)
(* stored record carries ISO texts (toISOString), which loadNotesFromDB    *)
(* turns into Dates again (new Date(text)).  The date part of the text is  *)
(* kept as the number of the day.                                          *)
(***************************************************************************)
NumInstants == 2
MaxRecordings == 1

MsPerDay == 86400000
MsPerHour == 3600000
MsPerMinute == 60000
MsPerSecond == 1000

InstantPool == << -1, 90061001, 0, 999 >>
Instants == {InstantPool[i] : i \in 1..NumInstants}

InvalidDate == [valid |-> FALSE, ms |-> 0]
DateOf(ms) == [valid |-> TRUE, ms |-> ms]
Dates == {DateOf(ms) : ms \in Instants} \cup {InvalidDate}

\* an optional field: absent (undefined), or given
Absent(v) == [given |-> FALSE, v |-> v]
Given(v) == [given |-> TRUE, v |-> v]
OptDates == {Absent(InvalidDate)} \cup {Given(d) : d \in Dates}
Recordings ==
  {Absent(<<>>)} \cup
  {Given(l) : l \in UNION {[1..n -> Dates] : n \in 0..MaxRecordings}}

Notes ==
  [createdAt : Dates, updatedAt : Dates, archivedAt : OptDates,
   deletedAt : OptDates, reminderTime : OptDates, voiceRecordings : Recordings]

\* a text without the milliseconds
toISOString_NoMillis(d) ==
  LET t == d.ms % MsPerDay
  IN  [day |-> d.ms \div MsPerDay,
       hh |-> t \div MsPerHour,
       mm |-> (t % MsPerHour) \div MsPerMinute,
       ss |-> (t % MsPerMinute) \div MsPerSecond,
       sss |-> 0]

\* Date.prototype.toISOString of a valid date: YYYY-MM-DDTHH:mm:ss.sssZ
toISOString(d) ==
  LET t == d.ms % MsPerDay
  IN  [day |-> d.ms \div MsPerDay,
       hh |-> t \div MsPerHour,
       mm |-> (t % MsPerHour) \div MsPerMinute,
       ss |-> (t % MsPerMinute) \div MsPerSecond,
       sss |-> t % MsPerSecond]

\* new Date(text) of such a text
NewDate(iso) ==
  DateOf(iso.day * MsPerDay + iso.hh * MsPerHour + iso.mm * MsPerMinute
           + iso.ss * MsPerSecond + iso.sss)

NoText == toISOString(DateOf(0))

\* toISOString throws a RangeError on the invalid date
Throws(note) ==
  \/ ~note.createdAt.valid \/ ~note.updatedAt.valid
  \/ \E f \in {note.archivedAt, note.deletedAt, note.reminderTime} :
        f.given /\ ~f.v.valid
  \/ /\ note.voiceRecordings.given
     /\ \E k \in DOMAIN note.voiceRecordings.v : ~note.voiceRecordings.v[k].valid

\* field?.toISOString()
OptText(f) == IF f.given THEN Given(toISOString(f.v)) ELSE Absent(NoText)

\* text ? new Date(text) : undefined
OptDate(f) == IF f.given THEN Given(NewDate(f.v)) ELSE Absent(InvalidDate)

\* the object that saveNotesToDB and saveNoteToDBSingle put
StorageRecord(note) ==
  [createdAt |-> toISOString(note.createdAt),
   updatedAt |-> toISOString(note.updatedAt),
   archivedAt |-> OptText(note.archivedAt),
   deletedAt |-> OptText(note.deletedAt),
   reminderTime |-> OptText(note.reminderTime),
   voiceRecordings |->
     IF note.voiceRecordings.given
     THEN Given([k \in DOMAIN note.voiceRecordings.v |->
                   toISOString(note.voiceRecordings.v[k])])
     ELSE Given(<<>>)]

\* the note that loadNotesFromDB makes of a stored object
Revive(rec) ==
  [createdAt |-> NewDate(rec.createdAt),
   updatedAt |-> NewDate(rec.updatedAt),
   archivedAt |-> OptDate(rec.archivedAt),
   deletedAt |-> OptDate(rec.deletedAt),
   reminderTime |-> OptDate(rec.reminderTime),
   voiceRecordings |->
     IF rec.voiceRecordings.given
     THEN Given([k \in DOMAIN rec.voiceRecordings.v |->
                   NewDate(rec.voiceRecordings.v[k])])
     ELSE Given(<<>>)]

\* saveNotesToDB([note]) on an open database, up to the commit
SaveNote ==
  /\ util.pc = "note"
  /\ util' = IF Throws(util.note)
             THEN [util EXCEPT !.pc = "threw"]
             ELSE [pc |-> "saved", note |-> util.note,
                   stored |-> StorageRecord(util.note)]
  /\ UNCHANGED <<localStorage, ops, cryptoOK, native, auth, setter, lastSet, idb,
                 db, proc, txQueue, txStore, mig, saveTimeout, timers, now, calls,
                 fired>>

\* loadNotesFromDB() after it
LoadNote ==
  /\ util.pc = "saved"
  /\ util' = [pc |-> "loaded", note |-> util.note, stored |-> util.stored,
              loaded |-> Revive(util.stored)]
  /\ UNCHANGED <<localStorage, ops, cryptoOK, native, auth, setter, lastSet, idb,
                 db, proc, txQueue, txStore, mig, saveTimeout, timers, now, calls,
                 fired>>

UtilIdle ==
  /\ localStorage = EmptyStorage
  /\ cryptoOK = TRUE
  /\ native = FALSE
  /\ auth = IdleAuth
  /\ setter = [i \in SetterIds |-> IdleSetter]
  /\ lastSet = [sc \in Scopes |-> NoHistory]
  /\ ops = 0
  /\ idb = EmptySnap
  /\ db = FALSE
  /\ proc = [p \in ProcIds |-> IdleProc]
  /\ txQueue = <<>>
  /\ txStore = EmptySnap
  /\ mig = IdleMig
  /\ saveTimeout = 0
  /\ timers = {}
  /\ now = 0
  /\ calls = NoCalls
  /\ fired = NoFired

RoundInit ==
  /\ \E note \in Notes : util = [pc |-> "note", note |-> note]
  /\ UtilIdle

RoundNext == SaveNote \/ LoadNote

RoundSpec == RoundInit /\ [][RoundNext]_vars

\* C13, as stated: the note loaded after a save equals the note saved in
\* every field, whichever optional fields it has.
C13_AsClaimed == util.pc = "loaded" => util.loaded = util.note

\* the note with voiceRecordings present whenever it is absent
Normalised(note) ==
  IF note.voiceRecordings.given THEN note
  ELSE [note EXCEPT !.voiceRecordings = Given(<<>>)]

\* C13: the note loaded after a save equals the note saved in every field,
\* every timestamp being the same instant, except that a note without
\* voiceRecordings is loaded with an empty list of them.
C13_RoundTrip == util.pc = "loaded" => util.loaded = Normalised(util.note)

\* a note before the epoch with an optional timestamp and a recording has
\* made the round trip
C13_Witness ==
  /\ util.pc = "loaded"
  /\ util.note.createdAt.ms < 0
  /\ util.note.archivedAt.given /\ util.note.archivedAt.v.ms > MsPerDay
  /\ ~util.note.deletedAt.given
  /\ util.note.voiceRecordings.given /\ Len(util.note.voiceRecordings.v) > 0


(***************************************************************************)
(* Record Store: splitLargeContent.                                        *)
(***************************************************************************)
MaxContent == 4
MaxChunkSize == 3
NumAnswers == 7

\* the content strings, over two characters
Contents == UNION {[1..n -> {97, 98}] : n \in 0..MaxContent}

\* content.slice(from, to) for 0 <= from <= to
Slice(content, from, to) ==
  SubSeq(content, from + 1, IF to < Len(content) THEN to ELSE Len(content))

\* an iteration that advances past one character more than it took
ChunkStep_Skip ==
  /\ util.pc = "chunk"
  /\ util.start < Len(util.content)
  /\ util' = [util EXCEPT
       !.chunks = Append(@, Slice(util.content, util.start,
                                  util.start + util.maxChunkSize)),
       !.start = @ + util.maxChunkSize + 1]
  /\ UNCHANGED <<localStorage, ops, cryptoOK, native, auth, setter, lastSet, idb,
                 db, proc, txQueue, txStore, mig, saveTimeout, timers, now, calls,
                 fired>>

\* one iteration of  while (start < content.length)
ChunkStep ==
  /\ util.pc = "chunk"
  /\ util.start < Len(util.content)
  /\ util' = [util EXCEPT
       !.chunks = Append(@, Slice(util.content, util.start,
                                  util.start + util.maxChunkSize)),
       !.start = @ + util.maxChunkSize]
  /\ UNCHANGED <<localStorage, ops, cryptoOK, native, auth, setter, lastSet, idb,
                 db, proc, txQueue, txStore, mig, saveTimeout, timers, now, calls,
                 fired>>

\* the loop ends: return chunks
ChunkReturn ==
  /\ util.pc = "chunk"
  /\ ~(util.start < Len(util.content))
  /\ util' = [util EXCEPT !.pc = "returned"]
  /\ UNCHANGED <<localStorage, ops, cryptoOK, native, auth, setter, lastSet, idb,
                 db, proc, txQueue, txStore, mig, saveTimeout, timers, now, calls,
                 fired>>

\* splitLargeContent(content, maxChunkSize) is called
ChunkInit ==
  /\ \E content \in Contents, maxChunkSize \in 1..MaxChunkSize :
        util = [pc |-> "chunk", content |-> content,
                maxChunkSize |-> maxChunkSize, start |-> 0, chunks |-> <<>>]
  /\ UtilIdle

ChunkNext == ChunkStep \/ ChunkReturn

ChunkSpec == ChunkInit /\ [][ChunkNext]_vars

RECURSIVE Concat(_)
Concat(chunks) ==
  IF chunks = <<>> THEN <<>> ELSE Head(chunks) \o Concat(Tail(chunks))

\* C14: splitLargeContent terminates (every iteration takes at least one
\* character that no earlier one took, so there are at most content.length
\* iterations); the fragments returned, put together in order, are the
\* content; every fragment but the last has maxChunkSize characters, the
\* last between 1 and maxChunkSize.
C14_Chunking ==
  /\ util.pc \in {"chunk", "returned"} =>
        /\ Len(util.chunks) <= Len(util.content)
        /\ util.start = Len(util.chunks) * util.maxChunkSize
        /\ Concat(util.chunks) =
             Slice(util.content, 0, util.start)
  /\ util.pc = "returned" =>
        /\ Concat(util.chunks) = util.content
        /\ \A k \in 1..Len(util.chunks) :
              IF k < Len(util.chunks)
              THEN Len(util.chunks[k]) = util.maxChunkSize
              ELSE Len(util.chunks[k]) \in 1..util.maxChunkSize

\* a content split into full fragments and a shorter last one
C14_Witness ==
  /\ util.pc = "returned"
  /\ Len(util.chunks) >= 2
  /\ util.maxChunkSize >= 2
  /\ Len(util.chunks[Len(util.chunks)]) < util.maxChunkSize


\* the id that a single-record call is about
IdOf(notes) == CHOOSE r \in RecIds : notes[r] # 0

\* C18: when saveNoteToDBSingle(note) commits, the record stored under
\* note.id is the note and every other record is as it was; when
\* deleteNoteFromDB(id) commits, no record is stored under id and every
\* other record is as it was (nothing changes when there was none).
C18_SingleRecordWrites ==
  [][ \A p \in ProcIds :
        /\ Commits(p) /\ proc[p].kind = "saveOne" =>
              idb' = [idb EXCEPT ![IdOf(proc[p].notes)] =
                                    proc[p].notes[IdOf(proc[p].notes)]]
        /\ Commits(p) /\ proc[p].kind = "deleteOne" =>
              /\ idb' = [idb EXCEPT ![IdOf(proc[p].notes)] = 0]
              /\ idb[IdOf(proc[p].notes)] = 0 => idb' = idb
    ]_vars

\* one call has stored a record and another has deleted a different one:
\* the stored record is there, the deleted one is not
C18_Witness ==
  \E p, q \in ProcIds :
    /\ proc[p].kind = "saveOne" /\ proc[p].out = "committed"
    /\ proc[q].kind = "deleteOne" /\ proc[q].out = "committed"
    /\ IdOf(proc[p].notes) # IdOf(proc[q].notes)
    /\ idb[IdOf(proc[p].notes)] = proc[p].notes[IdOf(proc[p].notes)]
    /\ idb[IdOf(proc[q].notes)] = 0


\* C19: at most one timer of the Write Scheduler is pending in every
\* state: it is the timer of the last debouncedSaveNotes call, saveTimeout
\* is its handle and it carries the notes of that call; no timer of a
\* superseded call is left to fire, whatever the delays.
C19_SinglePending ==
  /\ Cardinality(timers) <= 1
  /\ \A t \in timers :
        /\ t.id = saveTimeout /\ t.id = calls.n
        /\ t.notes = calls.notes
        /\ t.due = calls.t + calls.delay
  /\ fired.stale = 0

\* a second call, made while the timer of the first was pending, has left
\* one timer: its own
C19_Witness ==
  /\ calls.n = 2 /\ calls.t > 0 /\ fired.n = 0
  /\ Cardinality(timers) = 1
  /\ \E t \in timers : t.id = 2 /\ NotesOf(t.notes) # {}


\* C20: whenever the write transaction of saveNotesToDB, saveNoteToDBSingle
\* or deleteNoteFromDB aborts (a request error, an exception while the
\* records are written, an abort at commit), the call is rejected to its
\* caller - it neither resolves nor stays pending for ever - and the durable
\* store keeps its last committed value.
C20_AbortRejects ==
  [][ \A p \in ProcIds :
        /\ proc[p].kind \in {"saveAll", "saveOne", "deleteOne"}
        /\ proc[p].pc \in {"cleared", "written"}
        /\ proc'[p].pc \notin {"cleared", "written", "idle"}
        /\ ~Commits(p)
        => proc'[p].pc = "rejected" /\ idb' = idb
    ]_vars


(***************************************************************************)
(* Password recovery: the security question.                               *)
(***************************************************************************)
\* "a", " A ", "b", "a~", "B_", "A" + capital sigma, "a" + small sigma, "":
\* "a~" and "b_" have the same rolling hash with every salt
AnswerPool ==
  << <<97>>, <<32, 65, 32>>, <<98>>, <<97, 126>>, <<66, 95>>, <<65, 931>>,
     <<97, 963>>, <<>> >>
Answers == {AnswerPool[i] : i \in 1..NumAnswers}

\* "q", "r"
Questions == {<<113>>, <<114>>}

\* the letters of the pool that have a case: A-Z, a-z, the three sigmas
Cased(c) == c \in 65..90 \/ c \in 97..122 \/ c \in {931, 962, 963}

\* String.prototype.toLowerCase: the Unicode lower-case mapping, in which
\* a capital sigma that ends a word becomes the final small sigma
toLowerCase(str) ==
  [i \in DOMAIN str |->
     LET c == str[i]
     IN  IF c \in 65..90 THEN c + 32
         ELSE IF c = 931
         THEN IF /\ i > 1 /\ Cased(str[i - 1])
                 /\ (i = Len(str) \/ ~Cased(str[i + 1]))
              THEN 962 ELSE 963
         ELSE c]

\* Unicode case folding, which has one small sigma
CaseFold(str) ==
  [i \in DOMAIN str |->
     LET c == str[i]
     IN  IF c \in 65..90 THEN c + 32
         ELSE IF c \in {931, 962} THEN 963
         ELSE c]

RECURSIVE TrimStart(_)
TrimStart(str) ==
  IF str # <<>> /\ Head(str) = 32 THEN TrimStart(Tail(str)) ELSE str

RECURSIVE TrimEnd(_)
TrimEnd(str) ==
  IF str # <<>> /\ str[Len(str)] = 32
  THEN TrimEnd(SubSeq(str, 1, Len(str) - 1)) ELSE str

\* String.prototype.trim
trim(str) == TrimEnd(TrimStart(str))

\* answer.toLowerCase().trim()
Normalized(answer) == trim(toLowerCase(answer))

NoAnswer == [set |-> FALSE, answer |-> <<>>]
AnswerSet(answer) == [set |-> TRUE, answer |-> answer]

IdleSetQuestion ==
  [pc |-> "idle", question |-> <<>>, normalized |-> <<>>, answer |-> <<>>,
   salt |-> <<>>]
IdleVerify ==
  [pc |-> "idle", answer |-> <<>>, normalized |-> <<>>, storedHash |-> NULL,
   storedSalt |-> NULL, res |-> FALSE, base |-> NoAnswer]

\* what the recovery actions leave alone
recFrame ==
  <<cryptoOK, native, auth, setter, lastSet, idb, db, proc, txQueue, txStore,
    mig, saveTimeout, timers, now, calls, fired>>

\* setSecurityQuestion up to the await of the derivation: the answer is
\* normalised and hashPasswordSecure generates the salt
setSecurityQuestion(question, answer, salt) ==
  /\ ops < MaxOps
  /\ util.set.pc = "idle"
  /\ util' = [util EXCEPT !.set =
                [pc |-> "derive", question |-> question,
                 normalized |-> Normalized(answer), answer |-> answer,
                 salt |-> salt]]
  /\ ops' = ops + 1
  /\ UNCHANGED <<localStorage, recFrame>>

\* the derivation resolves: question, hash and salt are stored
SetQuestionReturns ==
  /\ util.set.pc = "derive"
  /\ localStorage' =
       [localStorage EXCEPT
          !.npd_security_question = util.set.question,
          !.npd_security_answer =
             hashPasswordAsync(cryptoOK, util.set.normalized, util.set.salt),
          !.npd_security_answer_salt = util.set.salt]
  /\ util' = [util EXCEPT !.set = IdleSetQuestion,
                          !.last = AnswerSet(util.set.answer)]
  /\ UNCHANGED <<ops, recFrame>>

clearSecurityQuestion ==
  /\ ops < MaxOps
  /\ localStorage' =
       [localStorage EXCEPT !.npd_security_question = NULL,
                            !.npd_security_answer = NULL,
                            !.npd_security_answer_salt = NULL]
  /\ util' = [util EXCEPT !.last = NoAnswer]
  /\ ops' = ops + 1
  /\ UNCHANGED recFrame

\* the call up to the await in verifyPassword, given the text it compares
VerifyBegin(answer, text) ==
  LET storedHash == localStorage.npd_security_answer
      storedSalt == localStorage.npd_security_answer_salt
      call == [IdleVerify EXCEPT !.answer = answer, !.normalized = text,
                                 !.storedHash = storedHash,
                                 !.storedSalt = storedSalt,
                                 !.base = util.last]
  IN  IF ~Truthy(storedHash) THEN [call EXCEPT !.pc = "done", !.res = FALSE]
      ELSE IF SaltedPath(storedSalt) THEN [call EXCEPT !.pc = "derive"]
      ELSE [call EXCEPT !.pc = "done", !.res = VerifyLegacy(text, storedHash)]

\* a verification that compares the answer as it was typed
verifySecurityAnswer_Raw(answer) ==
  /\ ops < MaxOps
  /\ util.ver.pc \in {"idle", "done"}
  /\ util' = [util EXCEPT !.ver = VerifyBegin(answer, answer)]
  /\ ops' = ops + 1
  /\ UNCHANGED <<localStorage, recFrame>>

verifySecurityAnswer(answer) ==
  /\ ops < MaxOps
  /\ util.ver.pc \in {"idle", "done"}
  /\ util' = [util EXCEPT !.ver = VerifyBegin(answer, Normalized(answer))]
  /\ ops' = ops + 1
  /\ UNCHANGED <<localStorage, recFrame>>

\* the derivation of verifyPassword resolves and the hashes are compared
VerifyAnswerReturns ==
  /\ util.ver.pc = "derive"
  /\ util' = [util EXCEPT !.ver.pc = "done",
                          !.ver.res = VerifySalted(cryptoOK, util.ver.normalized,
                                                   util.ver.storedHash,
                                                   util.ver.storedSalt)]
  /\ UNCHANGED <<localStorage, ops, recFrame>>

RecInit ==
  /\ localStorage = EmptyStorage
  /\ cryptoOK \in BOOLEAN
  /\ native = FALSE
  /\ auth = IdleAuth
  /\ setter = [i \in SetterIds |-> IdleSetter]
  /\ lastSet = [sc \in Scopes |-> NoHistory]
  /\ ops = 0
  /\ idb = EmptySnap
  /\ db = FALSE
  /\ proc = [p \in ProcIds |-> IdleProc]
  /\ txQueue = <<>>
  /\ txStore = EmptySnap
  /\ mig = IdleMig
  /\ saveTimeout = 0
  /\ timers = {}
  /\ now = 0
  /\ calls = NoCalls
  /\ fired = NoFired
  /\ util = [pc |-> "recovery", set |-> IdleSetQuestion, ver |-> IdleVerify,
             last |-> NoAnswer]

RecNext ==
  \/ \E question \in Questions, answer \in Answers, salt \in Salts :
        setSecurityQuestion(question, answer, salt)
  \/ SetQuestionReturns
  \/ clearSecurityQuestion
  \/ \E answer \in Answers : verifySecurityAnswer(answer)
  \/ VerifyAnswerReturns

RecSpec == RecInit /\ [][RecNext]_vars

\* the verification has returned
Verified == util.ver.pc = "done"

\* C21 as stated: verifySecurityAnswer(b) returns true exactly for the b
\* whose case-folded, trimmed form is that of the answer last set, and
\* false for every b when no security question is set.
C21_AsClaimed ==
  Verified =>
    util.ver.res = ( /\ util.ver.base.set
                     /\ trim(CaseFold(util.ver.answer))
                          = trim(CaseFold(util.ver.base.answer)) )

\* C21, amended: with no security question set the result is false; after
\* setSecurityQuestion(q, a) it is true for every b with
\* b.toLowerCase().trim() = a.toLowerCase().trim(), and false for every
\* other b when the derivation is PBKDF2.
C21_Recovery ==
  Verified =>
    /\ ~util.ver.base.set => ~util.ver.res
    /\ util.ver.base.set =>
         /\ Normalized(util.ver.answer) = Normalized(util.ver.base.answer)
               => util.ver.res
         /\ ( cryptoOK /\ Normalized(util.ver.answer)
                             # Normalized(util.ver.base.answer) )
               => ~util.ver.res

\* an answer set as " A " has been verified as "a", and accepted
C21_Witness ==
  /\ Verified /\ util.ver.res
  /\ util.ver.base = AnswerSet(AnswerPool[2])
  /\ util.ver.answer = AnswerPool[1]


(***************************************************************************)
(* The operations that write credentials, with two password-setting calls  *)
(* in flight, and the security question with them.                         *)
(***************************************************************************)
CredSetters == 1..(MaxSetters + 1)

\* the scope of the security answer
RECOVERY == "recovery"
CredScopes == Scopes \cup {RECOVERY}

CredHash(ls, scope) ==
  IF scope = RECOVERY THEN ls.npd_security_answer ELSE StoredHash(ls, scope)

CredSalt(ls, scope) ==
  IF scope = RECOVERY THEN ls.npd_security_answer_salt ELSE StoredSalt(ls, scope)

\* the texts that are hashed: the passwords and the normalised answers
Secrets == Passwords \cup {Normalized(a) : a \in Answers}

CredInit ==
  /\ localStorage \in InitialStorages
  /\ cryptoOK \in BOOLEAN
  /\ native = FALSE
  /\ auth = IdleAuth
  /\ setter = [i \in CredSetters |-> IdleSetter]
  /\ lastSet = [sc \in Scopes |-> NoHistory]
  /\ ops = IF localStorage = EmptyStorage THEN 0 ELSE 1
  /\ idb = EmptySnap
  /\ db = FALSE
  /\ proc = [p \in ProcIds |-> IdleProc]
  /\ txQueue = <<>>
  /\ txStore = EmptySnap
  /\ mig = IdleMig
  /\ saveTimeout = 0
  /\ timers = {}
  /\ now = 0
  /\ calls = NoCalls
  /\ fired = NoFired
  /\ util = [pc |-> "recovery", set |-> IdleSetQuestion, ver |-> IdleVerify,
             last |-> NoAnswer]

CredNext ==
  \/ \E i \in CredSetters, password \in Passwords, salt \in Salts :
        setHiddenNotesPassword(i, password, salt)
  \/ \E i \in CredSetters, noteId \in NoteIds, protection \in NoteProtections,
        password \in PwArgs, salt \in Salts :
        setNoteProtection(i, noteId, protection, password, salt)
  \/ \E i \in CredSetters : DerivationReturns(i)
  \/ \E enabled \in BOOLEAN : setHiddenNotesBiometric(enabled)
  \/ clearHiddenNotesProtection
  \/ \E noteId \in NoteIds : removeNoteProtection(noteId)
  \/ \E question \in Questions, answer \in Answers, salt \in Salts :
        setSecurityQuestion(question, answer, salt)
  \/ SetQuestionReturns
  \/ clearSecurityQuestion

CredSpec == CredInit /\ [][CredNext]_vars

\* the hash and the salt are those of one salted derivation
SaltedPair(hash, salt) ==
  /\ salt \in Salts
  /\ \E secret \in Secrets :
        /\ hash = hashPasswordAsync(cryptoOK, secret, salt)
        /\ ~VerifyLegacy(secret, hash)

\* C22: every step that writes the hash or the salt of a scope (the hidden
\* notes, a note, the security answer) leaves a hash and a non-empty
\* generated salt that belong to one salted derivation, never the legacy
\* hash; a hash without a salt is one that was stored before and has not
\* been written since.  This holds when two password-setting calls on a
\* scope interleave.
C22_NeverLegacy ==
  [][ \A scope \in CredScopes :
        LET hash0 == CredHash(localStorage, scope)
            salt0 == CredSalt(localStorage, scope)
            hash1 == CredHash(localStorage', scope)
            salt1 == CredSalt(localStorage', scope)
        IN  /\ ( (hash1 # hash0 \/ salt1 # salt0) /\ (hash1 # NULL \/ salt1 # NULL) )
                  => SaltedPair(hash1, salt1)
            /\ ( Truthy(hash1) /\ ~Truthy(salt1) )
                  => hash1 = hash0 /\ salt1 = salt0
    ]_vars

\* two setHiddenNotesPassword calls, and no other operation, have been
\* made: one has stored its credential while the other was in flight
C22_Witness ==
  /\ ops = 2
  /\ \E i \in CredSetters :
        /\ setter[i].pc = "derive" /\ setter[i].scope = HIDDEN
        /\ ~setter[i].clean
  /\ Truthy(localStorage.npd_hidden_notes_password)
  /\ localStorage.npd_hidden_notes_salt \in Salts


\* C23: for every note, in every state (those in which setNoteProtection is
\* suspended in the derivation included), the stored flag hasPassword is
\* true if and only if a password hash is stored for the note: no note is
\* locked by a flag without a hash, and no stored hash is ignored.
C23_FlagMatchesHash ==
  \A n \in NoteIds :
     getNoteProtection(localStorage, n).hasPassword
        <=> Truthy(localStorage.npd_note_password[n])


(***************************************************************************)
(* The Write Scheduler on an application that keeps running, with the      *)
(* primary backend available: indexedDB.open succeeds, the requests of a   *)
(* transaction succeed and the transaction completes.                      *)
(***************************************************************************)
\* IndexedDB answers the open requests of a database in the order in which
\* they were made; no slot is used again before the first answer, so the
\* calls that await theirs are in the order of their slots.  A call made
\* after the first answer finds the cached handle and does not wait.
OpenInOrder(p) ==
  /\ \A q \in ProcIds : q < p => proc[q].pc # "opening"
  /\ OpenReturns(p, TRUE)

\* a call whose timer is due within the time that the model follows
CallInTime(notes, delay) ==
  /\ now + delay <= MaxTime
  /\ debouncedSaveNotes(notes, delay)

LiveNext ==
  \/ \E notes \in Snapshots, delay \in 1..MaxDelay : CallInTime(notes, delay)
  \/ \E t \in timers, p \in ProcIds : TimerFires(t, p)
  \/ Tick
  \/ \E p \in ProcIds : OpenInOrder(p)
  \/ \E p \in ProcIds : ReadSuccess(p)
  \/ \E p \in ProcIds : TxBegin(p)
  \/ \E p \in ProcIds : ClearSuccess(p, TRUE)
  \/ \E p \in ProcIds : Commit(p)

\* the event loop runs what is due: time passes, a due timer fires, the
\* events of the database are delivered
LiveFairness ==
  /\ WF_vars(Tick)
  /\ WF_vars(\E t \in timers, p \in ProcIds : TimerFires(t, p))
  /\ WF_vars(\E p \in ProcIds : OpenInOrder(p))
  /\ WF_vars(\E p \in ProcIds : ReadSuccess(p))
  /\ WF_vars(\E p \in ProcIds : TxBegin(p))
  /\ WF_vars(\E p \in ProcIds : ClearSuccess(p, TRUE))
  /\ WF_vars(\E p \in ProcIds : Commit(p))

\* the application has started: nothing is in flight, or the
\* loadNotesFromDB() of the start-up is awaiting indexedDB.open
LiveInit ==
  /\ localStorage = EmptyStorage
  /\ ProtectionIdle
  /\ ops = 0
  /\ idb \in Snapshots
  /\ util = NoUtil
  /\ db = FALSE
  /\ \E loading \in BOOLEAN :
        proc = [p \in ProcIds |->
                  IF loading /\ p = 1
                  THEN [kind |-> "loadAll", pc |-> "opening", notes |-> EmptySnap,
                        by |-> "ui", out |-> "none"]
                  ELSE IdleProc]
  /\ txQueue = <<>>
  /\ txStore = EmptySnap
  /\ mig = IdleMig
  /\ saveTimeout = 0
  /\ timers = {}
  /\ now = 0
  /\ calls = NoCalls
  /\ fired = NoFired

LiveSpec == LiveInit /\ [][LiveNext]_vars /\ LiveFairness

\* no timer is pending and every write that was started has settled
Quiescent ==
  /\ timers = {}
  /\ \A p \in ProcIds : proc[p].pc \in {"idle", "resolved", "rejected"}

\* the timer of the last call has fired and called saveNotesToDB with the
\* notes of that call
LastFired == fired.forLast = 1 /\ fired.notes = calls.notes

\* C24: if the calls of debouncedSaveNotes stop, saveNotesToDB is
\* eventually called with the notes of the last call, the writes
\* eventually settle, and whenever they have all settled the durable
\* store holds the notes of the last call - also when the write of an
\* earlier timer is in flight when a later timer fires.
C24_EventualDurability ==
  /\ \A k \in 1..MaxCalls : (calls.n = k) ~> (calls.n > k \/ LastFired)
  /\ \A k \in 1..MaxCalls :
        (calls.n = k) ~> (calls.n > k \/ (Quiescent /\ idb = calls.notes))
  /\ []( (Quiescent /\ calls.n > 0) => idb = calls.notes )

\* the legacy list that the invocation of migrateNotesToIndexedDB has read
Migrating == loadNotesFromLocalStorage([localStorage EXCEPT !.notes = mig.notes0])

\* C25: when migrateNotesToIndexedDB is invoked with the flag unset, a
\* non-empty legacy list and records in the object store, every such
\* record stays stored during and after the migration, and those that are
\* not in the legacy list stay as they were: the migration only adds.
C25_KeepsStored ==
  ( /\ mig.pc \in {"await", "done"}
    /\ mig.flag0 # "true"
    /\ NotesOf(Migrating) # {} )
  => \A r \in NotesOf(mig.idb0) :
        /\ idb[r] # 0
        /\ r \notin NotesOf(Migrating) => idb[r] = mig.idb0[r]

====
